---- MODULE Spec2Model ----
(***************************************************************************)
(* Verification model of terminal_mcp_server's execution core:             *)
(*   - ProcessManager   (utils/process_manager.py)   specification SpecPM  *)
(*   - CommandExecutor  (utils/command_executor.py)                        *)
(*       blocking execute                      specification SpecExec      *)
(*       execute_with_streaming                specification SpecStreaming *)
(*       execute_with_separated_streaming      specification SpecSeparated *)
(*       environment and log of execute        specification SpecEnv       *)
(*   - OutputStreamer   (utils/output_streamer.py)                         *)
(*       stream_output                         specification SpecStream    *)
(*       stream_output_with_separation         specification SpecSep       *)
(*       buffer_size and its setters           specification SpecBuffer    *)
(*       the audit trail of an execution       specification SpecAudit     *)
(*       capture of a large output             specification SpecCapture   *)
(*       termination of a process              specification SpecTerm      *)
(* Each component has its own variables and its own specification; a       *)
(* specification leaves the variables of the other components unchanged.   *)
(***************************************************************************)
EXTENDS Integers, Sequences, FiniteSets, Bags, TLC

(***************************************************************************)
(* Bounds                                                                  *)
(***************************************************************************)
\* number of processes ever spawned by the registry
MaxProcs == 2
\* number of registry calls that may be suspended at an await at once
MaxCalls == 2

(***************************************************************************)
(* ProcessManager                                                          *)
(***************************************************************************)
VARIABLES
    processes,          \* self.processes: id -> ProcessInfo
    process_handles,    \* keys of self._process_handles
    process_outputs,    \* self._process_outputs: id -> captured output
    proc,               \* every spawned subprocess: OS state + asyncio handle
    next_id,            \* next fresh process id
    calls,              \* bag of the registry calls suspended at an await
    last,               \* what the latest step handed back to a caller, if anything
    restarted           \* per id: whether restart() was called on its record

pmVars == <<processes, process_handles, process_outputs, proc, next_id,
            calls, last, restarted>>

\* CommandExecutor.execute: one call at a time, from its entry to its return
VARIABLES
    command_counter,    \* self._command_counter
    exec_pc,            \* where the execute() call stands
    request,            \* the request of the call, after its timeout was validated
    process,            \* the subprocess of the call and its process group
    signals,            \* the signals delivered to the process group, in order
    timer,              \* what held when wait_for's timer expired
    partial,            \* partial_stdout / partial_stderr of the timeout path
    failure,            \* which failure the framework detected in the call
    result              \* what execute handed back

execVars == <<command_counter, exec_pc, request, process, signals, timer,
              partial, failure, result>>

\* OutputStreamer.stream_output: one generator over one pipe
VARIABLES
    stream_pc,          \* where the generator stands
    buffer_size,        \* self.buffer_size
    max_output_size,    \* self.max_output_size
    source,             \* the bytes the pipe delivers up to its EOF
    position,           \* how many of them have been read
    total_size,         \* total_size of the generator
    fragments           \* what the generator has yielded, in order

streamVars == <<stream_pc, buffer_size, max_output_size, source, position,
                total_size, fragments>>

\* OutputStreamer.stream_output_with_separation: one merged generator over the
\* two pipes of a process
VARIABLES
    sep_pc,             \* the wait_for the merge loop stands at: its channel
    sep_cfg,            \* buffer_size, max_output_size, and what each pipe delivers
    sep_pipe,           \* per channel: bytes not yet written, bytes arrived, EOF
    sep_gen,            \* per channel: the _stream_single_output generator
    sep_held,           \* stdout_chunk of the turn, while stderr is tried
    sep_out             \* per channel: the fragments yielded, in order

sepVars == <<sep_pc, sep_cfg, sep_pipe, sep_gen, sep_held, sep_out>>

\* CommandExecutor.execute_with_streaming: one call, its process, its
\* generator and its completion task
VARIABLES
    streaming_pc,       \* where update_result_when_complete stands
    streaming_req,      \* timeout, streamer limits, what the process will write
    streaming_process,  \* the child: os state, returncode, signals it got
    streaming_pipe,     \* per channel: bytes not yet written, bytes arrived, EOF
    chunk_capture,      \* the generator: its state, total_size, chunks
    preliminary_result  \* the CommandResult handed to the caller

streamingVars == <<streaming_pc, streaming_req, streaming_process,
                   streaming_pipe, chunk_capture, preliminary_result>>

\* CommandExecutor.execute_with_separated_streaming: the completion task of one
\* call; its generator is the merged generator above, and its stdout_chunks
\* and stderr_chunks are what that generator has yielded (sep_out)
VARIABLES
    separated_task,     \* update_result_when_complete, its timeout, its process
    separated_result    \* the CommandResult handed to the caller

separatedVars == <<separated_task, separated_result>>

\* CommandExecutor.execute: the environment of concurrent calls and what they log
VARIABLES
    environ,            \* os.environ of the server process
    env_call,           \* per call: where it stands, its overrides, env, child
    env_log             \* the log records emitted so far

envVars == <<environ, env_call, env_log>>

\* OutputStreamer: one object, its buffer configuration and its setters
VARIABLES
    streamer            \* the object's fields, and how the latest call on it ended

bufferVars == <<streamer>>

\* CommandExecutor: the audit trail of one execution, in each of the three modes
VARIABLES
    audit_call,         \* the execution: its mode, its request, where it stands
    audit_log           \* the COMMAND_AUDIT records emitted for it

auditVars == <<audit_call, audit_log>>

\* CommandExecutor._execute_with_capture: the child, its stdout pipe, the drain task
VARIABLES
    capture_pc,         \* where execute stands: "idle", "waiting", "done"
    capture_proc,       \* the child: what it has left to write, its state
    capture_pipe,       \* bytes written and not read: the pipe and the reader's buffer
    capture_reader,     \* _read_stream_until_timeout: its counter, whether it has returned
    capture_result      \* the exit code execute returned

captureVars == <<capture_pc, capture_proc, capture_pipe, capture_reader, capture_result>>

\* termination of a process by the executor and by the registry
VARIABLES
    term_pc,            \* idle, running, grace (asyncio.sleep), blocked (time.sleep), done
    term_kind,          \* who terminates: the executor or the registry
    term_proc,          \* the process: os, returncode, whether its pipes are held open
    term_signals,       \* the signals sent, with the state of the process at that time
    term_ticks          \* steps made by the other tasks of the event loop

termVars == <<term_pc, term_kind, term_proc, term_signals, term_ticks>>

vars == <<pmVars, execVars, streamVars, sepVars, streamingVars, separatedVars,
          envVars, bufferVars, auditVars, captureVars, termVars>>
\* what the steps of one component leave alone
outsidePM == <<execVars, streamVars, sepVars, streamingVars, separatedVars,
               envVars, bufferVars, auditVars, captureVars, termVars>>
outsideExec == <<pmVars, streamVars, sepVars, streamingVars, separatedVars,
                 envVars, bufferVars, auditVars, captureVars, termVars>>
outsideStream == <<pmVars, execVars, sepVars, streamingVars, separatedVars,
                   envVars, bufferVars, auditVars, captureVars, termVars>>
outsideSep == <<pmVars, execVars, streamVars, streamingVars, separatedVars,
                envVars, bufferVars, auditVars, captureVars, termVars>>
outsideStreaming == <<pmVars, execVars, streamVars, sepVars, separatedVars,
                      envVars, bufferVars, auditVars, captureVars, termVars>>
outsideSeparated == <<pmVars, execVars, streamVars, streamingVars, envVars,
                      bufferVars, auditVars, captureVars, termVars>>
outsideEnv == <<pmVars, execVars, streamVars, sepVars, streamingVars,
                separatedVars, bufferVars, auditVars, captureVars, termVars>>
outsideBuffer == <<pmVars, execVars, streamVars, sepVars, streamingVars,
                   separatedVars, envVars, auditVars, captureVars, termVars>>
outsideAudit == <<pmVars, execVars, streamVars, sepVars, streamingVars,
                  separatedVars, envVars, bufferVars, captureVars, termVars>>
outsideCapture == <<pmVars, execVars, streamVars, sepVars, streamingVars,
                    separatedVars, envVars, bufferVars, auditVars, termVars>>
outsideTerm == <<pmVars, execVars, streamVars, sepVars, streamingVars,
                 separatedVars, envVars, bufferVars, auditVars, captureVars>>

Ids == 1..MaxProcs
\* the start_process requests of the callers: a command run detached, and a
\* command run with its output captured
StartRequests == {[command |-> "sleep", capture_output |-> FALSE],
                  [command |-> "job", capture_output |-> TRUE]}

RUNNING == "running"
COMPLETED == "completed"
FAILED == "failed"
KILLED == "killed"

\* process.returncode before asyncio has seen the child's exit
None == 255
\* return codes of a child ended by SIGTERM / SIGKILL
RcSigterm == -15
RcSigkill == -9
\* return codes the event loop may read from a child that has ended: its own
\* exit code, or the signal that ended it
ReturnCodes == {0, 1, RcSigterm, RcSigkill}

\* a subprocess that does not exist yet.  os is "alive", "exited" (ended and
\* not yet reaped) or "gone" (reaped: the pid is no more).  capture is the state of the record's
\* _capture_output task: "none" (not started), "waiting" (in communicate(), the
\* child has written nothing), "buffered" (communicate() holds what the child
\* has written, or the child has ended), "done" (lines 95-104 have run)
NoProc == [os |-> "none", returncode |-> None, capture |-> "none"]

\* ids of a set in dict (insertion) order; ids are handed out in increasing order
RECURSIVE InOrder(_)
InOrder(S) ==
    IF S = {} THEN <<>>
    ELSE LET m == CHOOSE x \in S : \A y \in S : x <= y
         IN <<m>> \o InOrder(S \ {m})

Remove_KeepsAll(f, S) == f
Remove(f, S) == [x \in (DOMAIN f) \ S |-> f[x]]

\* kill_process, the handler of `except Exception` (lines 152-154)
KillCatch_Propagates(exc) == exc
KillCatch(exc) == "False"

\* kill_process up to its suspension in asyncio.sleep(0.1) (lines 124-137)
KillEnter_TrueOnUnknown(ps, hs, pr, id) ==
    [kind |-> "ret", ret |-> "True", ps |-> ps, pr |-> pr]
KillEnter(ps, hs, pr, id) ==
    IF id \notin DOMAIN ps
    THEN [kind |-> "ret", ret |-> "False", ps |-> ps, pr |-> pr]
    ELSE IF id \notin hs
    THEN [kind |-> "ret", ret |-> "False", ps |-> ps, pr |-> pr]
    ELSE IF pr[id].os = "gone"
    THEN \* os.getpgid raises ProcessLookupError: pass, then lines 148-150
         [kind |-> "ret", ret |-> "True",
          ps |-> [ps EXCEPT ![id].status = KILLED], pr |-> pr]
    ELSE \* SIGTERM delivered to the group, then sleep; whether and when the
         \* child ends of it is the child's step (ProcExit)
         [kind |-> "sleep", ret |-> "None", ps |-> ps, pr |-> pr]

\* kill_process after the sleep (lines 139-154)
KillLeave(ps, pr, id) ==
    LET pr2 == IF pr[id].returncode = None /\ pr[id].os = "alive"
               THEN [pr EXCEPT ![id].os = "gone",   \* SIGKILL to the group
                               ![id].capture =
                                   IF @ = "waiting" THEN "buffered" ELSE @]
               ELSE pr
    IN IF id \in DOMAIN ps
       THEN [ret |-> "True", ps |-> [ps EXCEPT ![id].status = KILLED], pr |-> pr2]
       ELSE [ret |-> KillCatch("KeyError"), ps |-> ps, pr |-> pr2]

\* _update_process_status (lines 188-215)
UpdateProcessStatus(ps, hs, pr, id) ==
    IF id \notin DOMAIN ps THEN ps
    ELSE IF ps[id].status = KILLED THEN ps
    ELSE IF id \notin hs THEN ps
    ELSE IF pr[id].returncode # None
    THEN IF pr[id].returncode = 0
         THEN [ps EXCEPT ![id].status = COMPLETED]
         ELSE [ps EXCEPT ![id].status = FAILED]
    ELSE IF pr[id].os \in {"alive", "exited"}
    THEN \* os.kill(pid, 0) succeeds as long as the pid is in the process table
         [ps EXCEPT ![id].status = RUNNING]
    ELSE [ps EXCEPT ![id].status = FAILED]

\* _update_process_statuses (lines 217-220)
RECURSIVE UpdateProcessStatuses(_, _, _, _)
UpdateProcessStatuses(ps, hs, pr, ids) ==
    IF ids = <<>> THEN ps
    ELSE UpdateProcessStatuses(UpdateProcessStatus(ps, hs, pr, Head(ids)),
                               hs, pr, Tail(ids))

\* shutdown's loop over running_processes (lines 253-259): runs until a kill
\* suspends or the list is finished and the three maps are cleared
RECURSIVE ShutdownLoop(_, _, _, _, _)
ShutdownLoop(ps, hs, outs, pr, queue) ==
    IF queue = <<>>
    THEN [kind |-> "done", id |-> 0, queue |-> <<>>,
          ps |-> <<>>, hs |-> {}, outs |-> <<>>, pr |-> pr]
    ELSE LET k == KillEnter(ps, hs, pr, Head(queue))
         IN IF k.kind = "sleep"
            THEN [kind |-> "sleep", id |-> Head(queue), queue |-> Tail(queue),
                  ps |-> k.ps, hs |-> hs, outs |-> outs, pr |-> k.pr]
            ELSE ShutdownLoop(k.ps, hs, outs, k.pr, Tail(queue))

\* started_at of a record, as its rank in start order (ids are issued in that order)
StartedAt(id) == id

\* the record's status is Killed: only lines 148-150 set it, right before a
\* kill_process call returns
AlreadyKilled(id) == id \in DOMAIN processes /\ processes[id].status = KILLED

\* a registry call suspended at an await
Call(op, pc, id, after, queue, command) ==
    [op |-> op, pc |-> pc, id |-> id, after |-> after, queue |-> queue,
     command |-> command]

Suspend(c) == calls (+) SetToBag({c})
Resume(c) == calls (-) SetToBag({c})
CanSuspend == BagCardinality(calls) < MaxCalls

\* what a registry call handed back to its caller: the value or the exception,
\* whether the call follows the earlier call a claim speaks of (after), and
\* whether it was suspended on its way (slept)
Return(op, id, ret, after, slept) ==
    [op |-> op, id |-> id, ret |-> ret, after |-> after, slept |-> slept]
NoReturn == Return("none", 0, "None", FALSE, FALSE)

\* a restart_process call on id is suspended
Restarting(id) == \E c \in BagToSet(calls) : c.op = "restart" /\ c.id = id

\* a kill_process call on id has returned and no restart_process call on id
\* has been made since
KilledBefore(id) == AlreadyKilled(id) /\ restarted[id] = "no"

\* a restart_process call that found id Running has returned
RestartedRunning(id) ==
    id \in DOMAIN processes /\ restarted[id] = "running" /\ ~Restarting(id)

PMInit ==
    /\ processes = <<>>
    /\ process_handles = {}
    /\ process_outputs = <<>>
    /\ proc = [i \in Ids |-> NoProc]
    /\ next_id = 1
    /\ calls = EmptyBag
    /\ last = NoReturn
    /\ restarted = [i \in Ids |-> "no"]

\* registration of a freshly spawned process (lines 63-85)
Register_Forgets(id, command, capture_output) ==
    /\ processes' = (id :> [status |-> RUNNING, command |-> command])
    /\ process_handles' = process_handles \cup {id}
    /\ process_outputs' = process_outputs
    /\ proc' = [proc EXCEPT ![id] =
                   [os |-> "alive", returncode |-> None, capture |-> "none"]]
    /\ next_id' = id + 1
Register(id, command, capture_output) ==
    /\ processes' = [i \in DOMAIN processes \cup {id} |->
                        IF i = id
                        THEN [status |-> RUNNING, command |-> command]
                        ELSE processes[i]]
    /\ process_handles' = process_handles \cup {id}
    /\ process_outputs' =
          IF capture_output
          THEN [i \in DOMAIN process_outputs \cup {id} |->
                   IF i = id THEN "" ELSE process_outputs[i]]
          ELSE process_outputs
    /\ proc' = [proc EXCEPT ![id] =
                   [os |-> "alive", returncode |-> None,
                    capture |-> IF capture_output THEN "waiting" ELSE "none"]]
    /\ next_id' = id + 1

\* start_process (lines 26-85)
StartProcess(command, capture_output) ==
    /\ next_id <= MaxProcs
    /\ Register(next_id, command, capture_output)
    /\ last' = Return("start", next_id, RUNNING, FALSE, FALSE)
    /\ UNCHANGED <<calls, restarted>>
    /\ UNCHANGED outsidePM

\* start_process when create_subprocess_shell raises (lines 87-89)
StartProcessFails ==
    /\ last' = Return("start", 0, "OSError", FALSE, FALSE)
    /\ UNCHANGED <<processes, process_handles, process_outputs, proc, next_id,
                   calls, restarted>>
    /\ UNCHANGED outsidePM

\* the child ends, by itself or of a signal: its pipes close, and it stays in
\* the process table until it is reaped
ProcExit(id) ==
    /\ proc[id].os = "alive"
    /\ proc' = [proc EXCEPT ![id].os = "exited",
                            ![id].capture = IF @ = "waiting" THEN "buffered" ELSE @]
    /\ last' = NoReturn
    /\ UNCHANGED <<processes, process_handles, process_outputs, next_id, calls,
                   restarted>>
    /\ UNCHANGED outsidePM

\* the child watcher's thread reaps the child (waitpid returns)
ProcReap(id) ==
    /\ proc[id].os = "exited"
    /\ proc' = [proc EXCEPT ![id].os = "gone"]
    /\ last' = NoReturn
    /\ UNCHANGED <<processes, process_handles, process_outputs, next_id, calls,
                   restarted>>
    /\ UNCHANGED outsidePM

\* the event loop learns of the child's exit: process.returncode is set
LoopNotify(id, rc) ==
    /\ proc[id].os = "gone"
    /\ proc[id].returncode = None
    /\ proc' = [proc EXCEPT ![id].returncode = rc]
    /\ last' = NoReturn
    /\ UNCHANGED <<processes, process_handles, process_outputs, next_id, calls,
                   restarted>>
    /\ UNCHANGED outsidePM

\* the child writes to its pipes: communicate(), suspended at line 94, reads
\* the bytes into a buffer of its own and hands nothing over before the exit
ProcWrite(id) ==
    /\ proc[id].os = "alive"
    /\ proc[id].capture = "waiting"
    /\ proc' = [proc EXCEPT ![id].capture = "buffered"]
    /\ last' = NoReturn
    /\ UNCHANGED <<processes, process_handles, process_outputs, next_id, calls,
                   restarted>>
    /\ UNCHANGED outsidePM

\* _capture_output once communicate() has returned (lines 95-104)
CaptureOutput_Recreates(id) ==
    /\ proc[id].capture \in {"waiting", "buffered"}
    /\ proc[id].returncode # None
    /\ process_outputs' = [i \in DOMAIN process_outputs \cup {id} |->
                              IF i = id THEN "output" ELSE process_outputs[i]]
    /\ processes' = IF id \in DOMAIN processes
                    THEN IF proc[id].returncode = 0
                         THEN [processes EXCEPT ![id].status = COMPLETED]
                         ELSE [processes EXCEPT ![id].status = FAILED]
                    ELSE processes
    /\ proc' = [proc EXCEPT ![id].capture = "done"]
    /\ last' = NoReturn
    /\ UNCHANGED <<process_handles, next_id, calls, restarted>>
    /\ UNCHANGED outsidePM
CaptureOutput(id) ==
    /\ proc[id].capture \in {"waiting", "buffered"}
    /\ proc[id].returncode # None
    /\ process_outputs' = IF id \in DOMAIN process_outputs
                          THEN [process_outputs EXCEPT ![id] = "output"]
                          ELSE process_outputs
    /\ processes' = IF id \in DOMAIN processes
                    THEN IF proc[id].returncode = 0
                         THEN [processes EXCEPT ![id].status = COMPLETED]
                         ELSE [processes EXCEPT ![id].status = FAILED]
                    ELSE processes
    /\ proc' = [proc EXCEPT ![id].capture = "done"]
    /\ last' = NoReturn
    /\ UNCHANGED <<process_handles, next_id, calls, restarted>>
    /\ UNCHANGED outsidePM

\* list_processes (lines 109-112); the list it returns is the records themselves
ListProcesses ==
    /\ processes' = UpdateProcessStatuses(processes, process_handles, proc,
                                          InOrder(DOMAIN processes))
    /\ last' = NoReturn
    /\ UNCHANGED <<process_handles, process_outputs, proc, next_id, calls,
                   restarted>>
    /\ UNCHANGED outsidePM

\* get_process_status (lines 114-120)
GetProcessStatus(id) ==
    /\ processes' = UpdateProcessStatus(processes, process_handles, proc, id)
    /\ last' = Return("status", id,
                      IF id \in DOMAIN processes THEN processes'[id].status
                      ELSE "ValueError",
                      RestartedRunning(id), FALSE)
    /\ UNCHANGED <<process_handles, process_outputs, proc, next_id, calls,
                   restarted>>
    /\ UNCHANGED outsidePM

\* get_process_output (lines 177-182)
GetProcessOutput_RaisesKilled(id) ==
    /\ last' = Return("output", id,
                      IF id \in DOMAIN process_outputs /\ ~AlreadyKilled(id)
                      THEN process_outputs[id] ELSE "ValueError",
                      FALSE, FALSE)
    /\ UNCHANGED <<processes, process_handles, process_outputs, proc, next_id,
                   calls, restarted>>
    /\ UNCHANGED outsidePM
GetProcessOutput(id) ==
    /\ last' = Return("output", id,
                      IF id \in DOMAIN process_outputs
                      THEN process_outputs[id] ELSE "ValueError",
                      FALSE, FALSE)
    /\ UNCHANGED <<processes, process_handles, process_outputs, proc, next_id,
                   calls, restarted>>
    /\ UNCHANGED outsidePM

\* kill_process from its call to its return or to its sleep (lines 122-137)
KillBegin(id) ==
    /\ LET k == KillEnter(processes, process_handles, proc, id)
       IN /\ processes' = k.ps
          /\ proc' = k.pr
          /\ IF k.kind = "sleep"
             THEN /\ CanSuspend
                  /\ calls' = Suspend(Call("kill", "sleep", id, KilledBefore(id),
                                           <<>>, "none"))
                  /\ last' = NoReturn
             ELSE /\ calls' = calls
                  /\ last' = Return("kill", id, k.ret, KilledBefore(id), FALSE)
    /\ UNCHANGED <<process_handles, process_outputs, next_id, restarted>>
    /\ UNCHANGED outsidePM

\* kill_process from the end of its sleep to its return (lines 139-154)
KillResume(c) ==
    /\ BagIn(c, calls)
    /\ c.op = "kill"
    /\ LET k == KillLeave(processes, proc, c.id)
       IN /\ processes' = k.ps
          /\ proc' = k.pr
          /\ last' = Return("kill", c.id, k.ret, c.after, TRUE)
    /\ calls' = Resume(c)
    /\ UNCHANGED <<process_handles, process_outputs, next_id, restarted>>
    /\ UNCHANGED outsidePM

\* restart_process up to its first suspension (lines 156-165)
RestartBegin(id) ==
    /\ IF id \notin DOMAIN processes
       THEN /\ last' = Return("restart", id, "ValueError", FALSE, FALSE)
            /\ UNCHANGED <<processes, proc, calls, restarted>>
       ELSE /\ CanSuspend
            /\ next_id <= MaxProcs
            /\ last' = NoReturn
            /\ restarted' = [restarted EXCEPT ![id] =
                                IF processes[id].status = RUNNING THEN "running"
                                ELSE IF @ = "running" THEN @ ELSE "idle"]
            /\ IF processes[id].status = RUNNING
               THEN LET k == KillEnter(processes, process_handles, proc, id)
                    IN /\ processes' = k.ps
                       /\ proc' = k.pr
                       /\ calls' = Suspend(Call("restart",
                                        IF k.kind = "sleep" THEN "sleep" ELSE "spawn",
                                        id, TRUE, <<>>, processes[id].command))
               ELSE /\ calls' = Suspend(Call("restart", "spawn", id, FALSE, <<>>,
                                             processes[id].command))
                    /\ UNCHANGED <<processes, proc>>
    /\ UNCHANGED <<process_handles, process_outputs, next_id>>
    /\ UNCHANGED outsidePM

\* restart_process: its kill_process resumes after the sleep (lines 139-154, 165)
RestartKillResume(c) ==
    /\ BagIn(c, calls)
    /\ c.op = "restart"
    /\ c.pc = "sleep"
    /\ LET k == KillLeave(processes, proc, c.id)
       IN /\ processes' = k.ps
          /\ proc' = k.pr
    /\ calls' = Resume(c) (+) SetToBag({[c EXCEPT !.pc = "spawn"]})
    /\ last' = NoReturn
    /\ UNCHANGED <<process_handles, process_outputs, next_id, restarted>>
    /\ UNCHANGED outsidePM

\* restart_process: start_process of the new record (lines 167-175)
RestartSpawn_KeepsCapture(c) ==
    /\ BagIn(c, calls)
    /\ c.op = "restart"
    /\ c.pc = "spawn"
    /\ next_id <= MaxProcs
    /\ Register(next_id, c.command, c.command = "job")
    /\ calls' = Resume(c)
    /\ last' = Return("restart", next_id, RUNNING, c.after, TRUE)
    /\ UNCHANGED restarted
    /\ UNCHANGED outsidePM
RestartSpawn(c) ==
    /\ BagIn(c, calls)
    /\ c.op = "restart"
    /\ c.pc = "spawn"
    /\ next_id <= MaxProcs
    /\ Register(next_id, c.command, FALSE)
    /\ calls' = Resume(c)
    /\ last' = Return("restart", next_id, RUNNING, c.after, TRUE)
    /\ UNCHANGED restarted
    /\ UNCHANGED outsidePM

\* cleanup_completed_processes (lines 222-241); horizon is now - max_age_hours,
\* so that age > max_age_hours reads StartedAt(i) < horizon
CleanupCompletedProcesses(horizon) ==
    /\ LET to_remove == {i \in DOMAIN processes :
                            /\ processes[i].status \in {COMPLETED, FAILED, KILLED}
                            /\ StartedAt(i) < horizon}
       IN /\ processes' = Remove(processes, to_remove)
          /\ process_handles' = process_handles \ to_remove
          /\ process_outputs' = Remove(process_outputs, to_remove)
          /\ restarted' = [i \in Ids |-> IF i \in to_remove THEN "no"
                                          ELSE restarted[i]]
    /\ last' = NoReturn
    /\ UNCHANGED <<proc, next_id, calls>>
    /\ UNCHANGED outsidePM

\* one run of shutdown's loop, from the call or from the end of a kill's sleep
ShutdownRun(others, ps, pr, queue) ==
    LET s == ShutdownLoop(ps, process_handles, process_outputs, pr, queue)
    IN /\ processes' = s.ps
       /\ process_handles' = s.hs
       /\ process_outputs' = s.outs
       /\ proc' = s.pr
       /\ calls' = IF s.kind = "sleep"
                   THEN others (+) SetToBag({Call("shutdown", "sleep", s.id, FALSE,
                                                  s.queue, "none")})
                   ELSE others
       /\ last' = NoReturn
       /\ restarted' = IF s.kind = "done" THEN [i \in Ids |-> "no"] ELSE restarted

\* shutdown up to its first suspension (lines 243-259)
ShutdownBegin ==
    /\ CanSuspend
    /\ ShutdownRun(calls, processes, proc,
                   InOrder({i \in DOMAIN processes : processes[i].status = RUNNING}))
    /\ UNCHANGED next_id
    /\ UNCHANGED outsidePM

\* shutdown: the kill it awaits resumes, then the loop goes on (lines 139-154, 253-259)
ShutdownKillResume(c) ==
    /\ BagIn(c, calls)
    /\ c.op = "shutdown"
    /\ LET k == KillLeave(processes, proc, c.id)
       IN ShutdownRun(Resume(c), k.ps, k.pr, c.queue)
    /\ UNCHANGED next_id
    /\ UNCHANGED outsidePM

\* the registry compares a return code with None and with 0 only: in LoopNotify
\* 1 stands for every other code, that of a signal included
PMNext ==
    \/ \E r \in StartRequests : StartProcess(r.command, r.capture_output)
    \/ StartProcessFails
    \/ \E i \in Ids : ProcExit(i)
    \/ \E i \in Ids : ProcReap(i)
    \/ \E i \in Ids, rc \in {0, 1} : LoopNotify(i, rc)
    \/ \E i \in Ids : ProcWrite(i)
    \/ \E i \in Ids : CaptureOutput(i)
    \/ ListProcesses
    \/ \E i \in Ids : GetProcessOutput(i)
    \/ \E i \in Ids : GetProcessStatus(i)
    \/ \E i \in Ids : KillBegin(i)
    \/ \E c \in BagToSet(calls) : KillResume(c)
    \/ \E i \in Ids : RestartBegin(i)
    \/ \E c \in BagToSet(calls) : RestartKillResume(c)
    \/ \E c \in BagToSet(calls) : RestartSpawn(c)
    \/ \E h \in 1..MaxProcs + 1 : CleanupCompletedProcesses(h)
    \/ ShutdownBegin
    \/ \E c \in BagToSet(calls) : ShutdownKillResume(c)

(***************************************************************************)
(* CommandExecutor: blocking execute                                       *)
(***************************************************************************)
\* number of execute() calls
MaxCommands == 2

\* the commands of the callers: one that only runs and exits, and one that
\* leaves a background job in its process group, holding its output pipes
Commands == {"simple", "background"}
\* request.working_directory: none, a directory, a missing path, a file
WorkingDirectories == {"", "/tmp", "/missing", "/etc/hosts"}
\* request.timeout in seconds: none, negative, zero, positive
Timeouts == {None, -1, 0, 1}
ExecRequests == [command : Commands, working_directory : WorkingDirectories,
                 timeout : Timeouts, capture_output : BOOLEAN]

\* the exit codes a command ends with by itself
NaturalCodes == {0, 1, 2, 42, 127, 130}
\* return code of a child ended by SIGHUP, as a command that signals itself
\* (kill -HUP $$) is
RcSighup == -1
\* what a command writes to a captured pipe
Outputs == {"", "out"}
\* str(e) of the exception raised by create_subprocess_shell
SpawnErrorTexts == {"", "[Errno 11] Resource temporarily unavailable"}

\* os.path.exists / os.path.isdir of a working directory (lines 213, 216)
Exists(wd) == wd # "/missing"
IsDir(wd) == wd = "/tmp"

NoProcess == [os |-> "none", returncode |-> None, status |-> None,
              child |-> "none"]
NoTimer == [expired |-> FALSE, running |-> FALSE, seen |-> FALSE]
NoPartial == [stdout |-> "", stderr |-> ""]
NoResult == [kind |-> "none", exit_code |-> 0, stdout |-> "", stderr |-> ""]

\* the command is still running: its shell or its background job
GroupRunning == process.os = "alive" \/ process.child = "alive"
\* a read of a captured pipe would return EOF: every holder of its write end
\* is gone
PipesAtEof == process.os = "gone" /\ process.child # "alive"

\* _get_error_message (lines 77-121), for the exceptions execute can catch
GetErrorMessage(e) ==
    IF e.type = "FileNotFoundError"
    THEN "Command or file not found: " \o e.text
    ELSE IF e.type = "NotADirectoryError"
    THEN "Invalid directory path - not a directory: " \o e.text
    ELSE "Command execution failed: " \o e.text \o " (type: " \o e.type \o ")"

\* the CommandResult of a call that came through (lines 258-275)
ExecuteResult(stdout, stderr, exit_code) ==
    [kind |-> "result", exit_code |-> exit_code, stdout |-> stdout,
     stderr |-> stderr]

\* what execute does with an exception raised in its body (lines 277-300)
ExecuteCatch_Propagates(e) ==
    [kind |-> "raise", exit_code |-> 0, stdout |-> "", stderr |-> e.type]
ExecuteCatch_ExitZero(e) == ExecuteResult("", GetErrorMessage(e), 0)
ExecuteCatch(e) == ExecuteResult("", GetErrorMessage(e), -1)

\* the message of the timeout path (lines 423, 532)
TimeoutMessage(timeout) ==
    "Command timed out after " \o ToString(timeout) \o " seconds"

\* the exit statuses a child can end with, given the signals its group got
ExitStatuses(sigs) ==
    IF \E k \in 1..Len(sigs) : sigs[k] = "SIGKILL" THEN {RcSigkill}
    ELSE IF sigs # <<>> THEN NaturalCodes \cup {RcSighup, RcSigterm}
    ELSE NaturalCodes \cup {RcSighup}

\* _kill_process_group up to its sleep or its return (lines 538-554, 565-568):
\* os.getpgid raises ProcessLookupError once the child is reaped, and the
\* fallback process.terminate() then delivers nothing
KillProcessGroup_NoSignal(p, sigs) == [kind |-> "ret", signals |-> sigs]
KillProcessGroup(p, sigs) ==
    IF p.os = "alive"
    THEN [kind |-> "sleep", signals |-> Append(sigs, "SIGTERM")]
    ELSE [kind |-> "ret", signals |-> sigs]

ExecInit ==
    /\ command_counter = 0
    /\ exec_pc = "idle"
    /\ request = [command |-> "simple", working_directory |-> "",
                  timeout |-> None, capture_output |-> FALSE]
    /\ process = NoProcess
    /\ signals = <<>>
    /\ timer = NoTimer
    /\ partial = NoPartial
    /\ failure = "none"
    /\ result = NoResult

\* execute from its entry to create_subprocess_shell, or to its return when
\* the validation fails (lines 178-243, 277-300)
ExecuteBegin(req) ==
    /\ exec_pc \in {"idle", "done"}
    /\ command_counter < MaxCommands
    /\ command_counter' = command_counter + 1
    /\ request' = IF req.timeout # None /\ req.timeout < 0
                  THEN [req EXCEPT !.timeout = None]
                  ELSE req
    /\ process' = NoProcess
    /\ signals' = <<>>
    /\ timer' = NoTimer
    /\ partial' = NoPartial
    /\ LET wd == req.working_directory
       IN IF wd # "" /\ ~Exists(wd)
          THEN /\ result' = ExecuteCatch([type |-> "FileNotFoundError",
                     text |-> "Working directory does not exist: " \o wd])
               /\ failure' = "validation"
               /\ exec_pc' = "done"
          ELSE IF wd # "" /\ ~IsDir(wd)
          THEN /\ result' = ExecuteCatch([type |-> "NotADirectoryError",
                     text |-> "Working directory is not a directory: " \o wd])
               /\ failure' = "validation"
               /\ exec_pc' = "done"
          ELSE /\ result' = NoResult
               /\ failure' = "none"
               /\ exec_pc' = "spawn"
    /\ UNCHANGED outsideExec

\* create_subprocess_shell returns the child, in its own session (lines 314-321,
\* 500-507); execute runs on to wait_for, which with timeout 0 cancels what it
\* is given before it has started (lines 377, 514)
ExecuteSpawn ==
    /\ exec_pc = "spawn"
    /\ process' = [os |-> "alive", returncode |-> None, status |-> None,
                   child |-> IF request.command = "background" THEN "alive"
                             ELSE "none"]
    /\ IF request.timeout = 0
       THEN /\ exec_pc' = "expired"
            /\ timer' = [expired |-> TRUE, running |-> TRUE, seen |-> FALSE]
       ELSE /\ exec_pc' = "wait"
            /\ UNCHANGED timer
    /\ UNCHANGED <<command_counter, request, signals, partial, failure, result>>
    /\ UNCHANGED outsideExec

\* create_subprocess_shell raises (lines 429-431, 534-536)
ExecuteSpawnFails(text) ==
    /\ exec_pc = "spawn"
    /\ result' = ExecuteResult("", "Error executing command: " \o text, -1)
    /\ failure' = "spawn"
    /\ exec_pc' = "done"
    /\ UNCHANGED <<command_counter, request, process, signals, timer, partial>>
    /\ UNCHANGED outsideExec

\* the child ends, by itself or of a signal, and is reaped
ExecProcExit(rc) ==
    /\ process.os = "alive"
    /\ rc \in ExitStatuses(signals)
    /\ process' = [process EXCEPT !.os = "gone", !.status = rc]
    /\ UNCHANGED <<command_counter, exec_pc, request, signals, timer, partial,
                   failure, result>>
    /\ UNCHANGED outsideExec

\* the background job of the command ends and lets go of the pipes
ExecChildExit ==
    /\ process.child = "alive"
    /\ process' = [process EXCEPT !.child = "gone"]
    /\ UNCHANGED <<command_counter, exec_pc, request, signals, timer, partial,
                   failure, result>>
    /\ UNCHANGED outsideExec

\* the event loop learns of the child's exit: process.returncode is set
ExecLoopNotify ==
    /\ process.os = "gone"
    /\ process.returncode = None
    /\ process' = [process EXCEPT !.returncode = process.status]
    /\ UNCHANGED <<command_counter, exec_pc, request, signals, timer, partial,
                   failure, result>>
    /\ UNCHANGED outsideExec

\* what wait_for awaits is over: process.wait(), and with capture the reads of
\* both pipes up to EOF (lines 333-377, 514)
Completed ==
    /\ process.returncode # None
    /\ request.capture_output => PipesAtEof

\* the awaited work ends in time; execute returns (lines 377-380, 514-516,
\* 245-275)
ExecuteComplete(out, err) ==
    /\ exec_pc = "wait"
    /\ Completed
    /\ ~request.capture_output => out = "" /\ err = ""
    /\ result' = ExecuteResult(out, err, process.returncode)
    /\ exec_pc' = "done"
    /\ UNCHANGED <<command_counter, request, process, signals, timer, partial,
                   failure>>
    /\ UNCHANGED outsideExec

\* wait_for's timer expires before the awaited work is over: wait_for cancels
\* it and waits for the cancellation (lines 377, 514)
ExecuteTimerExpires ==
    /\ exec_pc = "wait"
    /\ request.timeout # None
    /\ ~Completed
    /\ timer' = [expired |-> TRUE, running |-> GroupRunning,
                 seen |-> process.returncode # None]
    /\ exec_pc' = "expired"
    /\ UNCHANGED <<command_counter, request, process, signals, partial, failure,
                   result>>
    /\ UNCHANGED outsideExec

\* execute calls _kill_process_group and runs it to its sleep or to its end
EnterKillProcessGroup ==
    LET k == KillProcessGroup(process, signals)
    IN /\ signals' = k.signals
       /\ exec_pc' = IF k.kind = "sleep" THEN "grace" ELSE "cleanup"

\* the TimeoutError handler up to its first await: the salvage reads when a
\* captured pipe is not at EOF, else _kill_process_group (lines 382-412, 518-522)
ExecuteTimeout ==
    /\ exec_pc = "expired"
    /\ IF request.capture_output /\ ~PipesAtEof
       THEN /\ exec_pc' = "salvage"
            /\ UNCHANGED signals
       ELSE EnterKillProcessGroup
    /\ UNCHANGED <<command_counter, request, process, timer, partial, failure,
                   result>>
    /\ UNCHANGED outsideExec

\* the salvage reads are over, with what they got, and _kill_process_group
\* runs (lines 391-412)
ExecuteSalvage(out, err) ==
    /\ exec_pc = "salvage"
    /\ partial' = [stdout |-> out, stderr |-> err]
    /\ EnterKillProcessGroup
    /\ UNCHANGED <<command_counter, request, process, timer, failure, result>>
    /\ UNCHANGED outsideExec

\* _kill_process_group after its sleep (lines 556-563): SIGKILL to the group
\* when no return code is known and the child is still there
ExecuteGraceOver ==
    /\ exec_pc = "grace"
    /\ signals' = IF process.returncode = None /\ process.os = "alive"
                  THEN Append(signals, "SIGKILL")
                  ELSE signals
    /\ exec_pc' = "cleanup"
    /\ UNCHANGED <<command_counter, request, process, timer, partial, failure,
                   result>>
    /\ UNCHANGED outsideExec

\* the wait for cleanup is over or has timed out; execute returns the timeout
\* result (lines 414-427, 524-532, 245-275)
ExecuteTimeoutReturn ==
    /\ exec_pc = "cleanup"
    /\ result' = ExecuteResult(partial.stdout,
                     IF partial.stderr # ""
                     THEN partial.stderr \o "\n" \o TimeoutMessage(request.timeout)
                     ELSE TimeoutMessage(request.timeout),
                     -1)
    /\ failure' = "timeout"
    /\ exec_pc' = "done"
    /\ UNCHANGED <<command_counter, request, process, signals, timer, partial>>
    /\ UNCHANGED outsideExec

ExecNext ==
    \/ \E req \in ExecRequests : ExecuteBegin(req)
    \/ ExecuteSpawn
    \/ \E text \in SpawnErrorTexts : ExecuteSpawnFails(text)
    \/ \E rc \in NaturalCodes \cup {RcSighup, RcSigterm, RcSigkill} :
          ExecProcExit(rc)
    \/ ExecChildExit
    \/ ExecLoopNotify
    \/ \E out \in Outputs, err \in Outputs : ExecuteComplete(out, err)
    \/ ExecuteTimerExpires
    \/ ExecuteTimeout
    \/ \E out \in Outputs, err \in Outputs : ExecuteSalvage(out, err)
    \/ ExecuteGraceOver
    \/ ExecuteTimeoutReturn

(***************************************************************************)
(* OutputStreamer: stream_output                                           *)
(***************************************************************************)
\* longest source, largest buffer size, largest size ceiling
MaxLen == 4
MaxBuffer == 2
MaxCeiling == 3

\* the bytes of a source: "a", the two bytes of U+00E9, and a byte that is no
\* UTF-8 at all
ByteA == 97
ByteLead == 195
ByteCont == 169
ByteBad == 255
Bytes == {ByteA, ByteLead, ByteCont, ByteBad}
\* the code points decode gives: "a", U+00E9, and the replacement character
CharA == 97
CharE == 233
ReplacementChar == 65533

Sources == UNION {[1..n -> Bytes] : n \in 0..MaxLen}

\* bytes.decode('utf-8', errors='replace') (line 112): a lead byte and its
\* continuation byte give one character when they come in the same chunk;
\* every byte that cannot be decoded gives U+FFFD
RECURSIVE Decode(_)
Decode(b) ==
    IF b = <<>> THEN <<>>
    ELSE IF b[1] = ByteA THEN <<CharA>> \o Decode(Tail(b))
    ELSE IF b[1] = ByteLead /\ Len(b) >= 2 /\ b[2] = ByteCont
    THEN <<CharE>> \o Decode(Tail(Tail(b)))
    ELSE <<ReplacementChar>> \o Decode(Tail(b))

\* the test on the running byte counter (line 105)
OverLimit_AtLimit(total, max) == total >= max
OverLimit(total, max) == total > max

\* one turn of the loop on a chunk that is not empty (lines 103-116): the
\* new total_size, the fragment yielded, and whether the loop ends
StreamChunk(total, max, chunk) ==
    IF OverLimit(total + Len(chunk), max)
    THEN [total_size |-> total + Len(chunk), stop |-> TRUE,
          fragment |-> [marker |-> TRUE, text |-> <<>>, bytes |-> 0,
                        error |-> ""]]
    ELSE [total_size |-> total + Len(chunk), stop |-> FALSE,
          fragment |-> [marker |-> FALSE, text |-> Decode(chunk),
                        bytes |-> Len(chunk), error |-> ""]]

\* what read() raises when the pipe has failed: the OSError of the transport,
\* or any other exception
ReadErrors == {"OSError", "MemoryError", "RuntimeError"}
\* an inline error marker: no source text, the label of the handler
ErrorMarker(label) == [marker |-> FALSE, text |-> <<>>, bytes |-> 0,
                       error |-> label]

\* the handlers of stream_output (lines 122-133): each yields one marker and
\* lets the generator end
StreamCatch_Propagates(e) == [raised |-> TRUE, fragment |-> <<>>]
StreamCatch(e) ==
    [raised |-> FALSE,
     fragment |-> << ErrorMarker(IF e = "MemoryError" THEN "MEMORY ERROR"
                                 ELSE IF e = "OSError" THEN "I/O ERROR"
                                 ELSE "STREAMING ERROR") >>]

\* the handler of _stream_single_output (lines 295-297)
SingleCatch(e) == [raised |-> FALSE, fragment |-> <<ErrorMarker("STREAM ERROR")>>]

\* the source bytes behind a run of fragments, and their text
RECURSIVE BytesOf(_)
BytesOf(fs) == IF fs = <<>> THEN 0 ELSE fs[1].bytes + BytesOf(Tail(fs))
RECURSIVE TextOf(_)
TextOf(fs) == IF fs = <<>> THEN <<>> ELSE fs[1].text \o TextOf(Tail(fs))

StreamInit ==
    /\ stream_pc = "idle"
    /\ buffer_size = 1
    /\ max_output_size = 1
    /\ source = <<>>
    /\ position = 0
    /\ total_size = 0
    /\ fragments = <<>>

\* OutputStreamer(size, ceiling) is built and stream_output is called on a
\* process whose stdout will deliver src (lines 14-35, 87-94)
StreamOutputBegin(src, size, ceiling) ==
    /\ stream_pc = "idle"
    /\ stream_pc' = "reading"
    /\ buffer_size' = size
    /\ max_output_size' = ceiling
    /\ source' = src
    /\ UNCHANGED <<position, total_size, fragments>>
    /\ UNCHANGED outsideStream

\* adjust_buffer_size while the generator is between two reads (lines 37-52)
AdjustBufferSize(size) ==
    /\ stream_pc = "reading"
    /\ size # buffer_size
    /\ buffer_size' = size
    /\ UNCHANGED <<stream_pc, max_output_size, source, position, total_size,
                   fragments>>
    /\ UNCHANGED outsideStream

\* the consumer pulls; read(self.buffer_size) returns n bytes, between one
\* byte and buffer_size bytes of what is left (lines 97-116)
StreamRead(n) ==
    /\ stream_pc = "reading"
    /\ n <= buffer_size
    /\ position + n <= Len(source)
    /\ LET s == StreamChunk(total_size, max_output_size,
                            SubSeq(source, position + 1, position + n))
       IN /\ total_size' = s.total_size
          /\ fragments' = Append(fragments, s.fragment)
          /\ stream_pc' = IF s.stop THEN "done" ELSE "reading"
    /\ position' = position + n
    /\ UNCHANGED <<buffer_size, max_output_size, source>>
    /\ UNCHANGED outsideStream

\* the consumer pulls; read(self.buffer_size) raises e, a handler yields its
\* marker and the generator ends (lines 97, 122-136)
StreamReadFails(e) ==
    /\ stream_pc = "reading"
    /\ LET h == StreamCatch(e)
       IN /\ fragments' = fragments \o h.fragment
          /\ stream_pc' = IF h.raised THEN "raised" ELSE "failed"
    /\ UNCHANGED <<buffer_size, max_output_size, source, position, total_size>>
    /\ UNCHANGED outsideStream

\* the consumer pulls; read returns b"" at EOF and the generator ends (lines
\* 99-101)
StreamEof ==
    /\ stream_pc = "reading"
    /\ position = Len(source)
    /\ stream_pc' = "done"
    /\ UNCHANGED <<buffer_size, max_output_size, source, position, total_size,
                   fragments>>
    /\ UNCHANGED outsideStream

StreamNext ==
    \/ \E src \in Sources, size \in 1..MaxBuffer, ceiling \in 1..MaxCeiling :
          StreamOutputBegin(src, size, ceiling)
    \/ \E size \in 1..MaxBuffer : AdjustBufferSize(size)
    \/ \E n \in 1..MaxBuffer : StreamRead(n)
    \/ \E e \in ReadErrors : StreamReadFails(e)
    \/ StreamEof

(***************************************************************************)
(* OutputStreamer: stream_output_with_separation                           *)
(***************************************************************************)
\* longest content of one pipe
MaxSepLen == 2

Channels == {"stdout", "stderr"}
\* what a pipe delivers: text, and bytes that do not decode
SepSources == UNION {[1..n -> {ByteA, ByteBad}] : n \in 0..MaxSepLen}

\* error is the exception set on the reader, "" while there is none
NewPipe(src) == [pending |-> src, buffer |-> <<>>, eof |-> FALSE, error |-> ""]
NewGen == [closed |-> FALSE, exhausted |-> FALSE, total_size |-> 0]

\* wait_for(anext(iter), timeout=0.01) on one channel (lines 321-327, 276-290):
\*  - a generator that has ended raises StopAsyncIteration;
\*  - with an exception set on the reader, read raises it, the handler of
\*    line 295 yields its marker and the generator ends; were the exception
\*    to leave the generator, line 325 would make a chunk of it;
\*  - with bytes in the reader, read returns up to buffer_size of them and the
\*    generator yields their text, or the marker and then ends;
\*  - at EOF the generator ends: StopAsyncIteration;
\*  - with nothing to read yet the timer expires and wait_for cancels the
\*    pending __anext__: CancelledError is no Exception, so it leaves
\*    _stream_single_output through line 295 and ends the generator.
Anext(ch) ==
    LET p == sep_pipe[ch]
        g == sep_gen[ch]
        n == IF Len(p.buffer) < sep_cfg.buffer_size THEN Len(p.buffer)
             ELSE sep_cfg.buffer_size
        s == StreamChunk(g.total_size, sep_cfg.max_output_size,
                         SubSeq(p.buffer, 1, n))
    IN IF g.closed
       THEN [kind |-> "stop", fragment |-> <<>>, pipe |-> p,
             gen |-> [g EXCEPT !.exhausted = TRUE]]
       ELSE IF p.error # ""
       THEN [kind |-> "chunk",
             fragment |-> IF SingleCatch(p.error).raised
                          THEN <<ErrorMarker("ERROR")>>
                          ELSE SingleCatch(p.error).fragment,
             pipe |-> p, gen |-> [g EXCEPT !.closed = TRUE]]
       ELSE IF p.buffer # <<>>
       THEN [kind |-> "chunk", fragment |-> <<s.fragment>>,
             pipe |-> [p EXCEPT !.buffer = SubSeq(p.buffer, n + 1, Len(p.buffer))],
             gen |-> [g EXCEPT !.closed = s.stop, !.total_size = s.total_size]]
       ELSE IF p.eof
       THEN [kind |-> "stop", fragment |-> <<>>, pipe |-> p,
             gen |-> [g EXCEPT !.closed = TRUE, !.exhausted = TRUE]]
       ELSE [kind |-> "timeout", fragment |-> <<>>, pipe |-> p,
             gen |-> [g EXCEPT !.closed = TRUE]]

SepInit ==
    /\ sep_pc = "idle"
    /\ sep_cfg = [buffer_size |-> 1, max_output_size |-> 1,
                  content |-> [c \in Channels |-> <<>>]]
    /\ sep_pipe = [c \in Channels |-> NewPipe(<<>>)]
    /\ sep_gen = [c \in Channels |-> NewGen]
    /\ sep_held = <<>>
    /\ sep_out = [c \in Channels |-> <<>>]

\* OutputStreamer(size, ceiling) is built and stream_output_with_separation is
\* called on a process that will write out and err (lines 239-252, 307-314)
SepBegin(out, err, size, ceiling) ==
    /\ sep_pc = "idle"
    /\ sep_pc' = "stdout"
    /\ sep_cfg' = [buffer_size |-> size, max_output_size |-> ceiling,
                   content |-> [c \in Channels |->
                                   IF c = "stdout" THEN out ELSE err]]
    /\ sep_pipe' = [c \in Channels |->
                       NewPipe(IF c = "stdout" THEN out ELSE err)]
    /\ UNCHANGED <<sep_gen, sep_held, sep_out>>
    /\ UNCHANGED outsideSep

\* the process writes n more bytes to one of its pipes, after any delay
SepWrite(ch, n) ==
    /\ sep_pc # "idle"
    /\ sep_pipe[ch].error = ""
    /\ n <= Len(sep_pipe[ch].pending)
    /\ sep_pipe' = [sep_pipe EXCEPT
                       ![ch].buffer = @ \o SubSeq(sep_pipe[ch].pending, 1, n),
                       ![ch].pending = SubSeq(@, n + 1, Len(@))]
    /\ UNCHANGED <<sep_pc, sep_cfg, sep_gen, sep_held, sep_out>>
    /\ UNCHANGED outsideSep

\* the process has written everything to a pipe and closes it
SepClose(ch) ==
    /\ sep_pc # "idle"
    /\ sep_pipe[ch].error = ""
    /\ sep_pipe[ch].pending = <<>>
    /\ ~sep_pipe[ch].eof
    /\ sep_pipe' = [sep_pipe EXCEPT ![ch].eof = TRUE]
    /\ UNCHANGED <<sep_pc, sep_cfg, sep_gen, sep_held, sep_out>>
    /\ UNCHANGED outsideSep

\* a pipe fails: the transport sets the exception on the reader, and nothing
\* more arrives on it
SepPipeFails(ch, e) ==
    /\ sep_pc # "idle"
    /\ sep_pipe[ch].error = ""
    /\ ~sep_pipe[ch].eof
    /\ sep_pipe' = [sep_pipe EXCEPT ![ch].error = e]
    /\ UNCHANGED <<sep_pc, sep_cfg, sep_gen, sep_held, sep_out>>
    /\ UNCHANGED outsideSep

\* one wait_for of _merge_streams_realtime comes back (lines 314-342): after
\* the one on stdout the loop goes on to stderr unless that is exhausted; at
\* the end of the turn the pair is yielded if it holds a chunk, and the loop
\* ends once both channels are exhausted
MergeStep ==
    /\ sep_pc \in Channels
    /\ LET ch == sep_pc
           a == Anext(ch)
           gen == [sep_gen EXCEPT ![ch] = a.gen]
       IN /\ sep_pipe' = [sep_pipe EXCEPT ![ch] = a.pipe]
          /\ sep_gen' = gen
          /\ IF ch = "stdout" /\ ~gen["stderr"].exhausted
             THEN /\ sep_pc' = "stderr"
                  /\ sep_held' = a.fragment
                  /\ UNCHANGED sep_out
             ELSE /\ sep_held' = <<>>
                  /\ sep_out' =
                        IF ch = "stdout"
                        THEN [sep_out EXCEPT !["stdout"] = @ \o a.fragment]
                        ELSE [sep_out EXCEPT !["stdout"] = @ \o sep_held,
                                             !["stderr"] = @ \o a.fragment]
                  /\ sep_pc' = IF gen["stdout"].exhausted /\ gen["stderr"].exhausted
                               THEN "done"
                               ELSE IF ~gen["stdout"].exhausted THEN "stdout"
                               ELSE "stderr"
    /\ UNCHANGED sep_cfg
    /\ UNCHANGED outsideSep

SepNext ==
    \/ \E out \in SepSources, err \in SepSources,
          size \in 1..MaxBuffer, ceiling \in 1..MaxCeiling :
          SepBegin(out, err, size, ceiling)
    \/ \E ch \in Channels, n \in 1..MaxSepLen : SepWrite(ch, n)
    \/ \E ch \in Channels : SepClose(ch)
    \/ \E ch \in Channels : SepPipeFails(ch, "OSError")
    \/ MergeStep

(***************************************************************************)
(* CommandExecutor: execute_with_streaming                                 *)
(***************************************************************************)
StreamingErrs == {src \in SepSources : Len(src) <= 1}

StreamingRequests ==
    [timeout : Timeouts, stdout : SepSources, stderr : StreamingErrs,
     buffer_size : 1..MaxBuffer, max_output_size : (MaxCeiling - 1)..MaxCeiling]

NoStreamingProcess == [os |-> "none", returncode |-> None, signals |-> <<>>]
\* yielded is what the generator has handed to its consumer, in order; shared
\* tells whether result.captured_chunks is the list object of chunk_capture
NoCapture == [generator |-> "none", total_size |-> 0, chunks |-> <<>>,
              completed |-> FALSE, yielded |-> <<>>, shared |-> FALSE]
\* result.captured_chunks.  CommandResult(captured_chunks=chunk_capture.chunks)
\* (line 810) hands the list to the constructor of a pydantic model, which
\* either keeps the object or validates it into a list of its own, empty as
\* the original was; nothing assigns the field afterwards
CapturedChunks == IF chunk_capture.shared THEN chunk_capture.chunks ELSE <<>>
\* the CommandResult of lines 802-811; stderr is the text of the process
\* output in it, or else the message suffix.  execution_time is "0.0" or the
\* time measured from started_at ("elapsed"); completed_at is the value of
\* started_at or that of datetime.now() at the end ("now")
PreliminaryResult_Pending ==
    [state |-> "preliminary", exit_code |-> -1,
     stdout |-> <<>>, stderr |-> <<>>, suffix |-> "",
     execution_time |-> "0.0", completed_at |-> "started_at"]
PreliminaryResult == [state |-> "preliminary", exit_code |-> 0,
                      stdout |-> <<>>, stderr |-> <<>>, suffix |-> "",
                      execution_time |-> "0.0", completed_at |-> "started_at"]

\* "if timeout:" (line 817): None and 0 set no timer
HasTimer_NotNone(timeout) == timeout # None
HasTimer(timeout) == timeout # None /\ timeout # 0

\* what process.communicate() returns for a channel once the process is over
\* (line 827): the bytes of the pipe that nobody has read yet
Communicate(pipe) == pipe.buffer

StreamingInit ==
    /\ streaming_pc = "idle"
    /\ streaming_req = [timeout |-> None, stdout |-> <<>>, stderr |-> <<>>,
                        buffer_size |-> 1, max_output_size |-> 1]
    /\ streaming_process = NoStreamingProcess
    /\ streaming_pipe = [c \in Channels |-> NewPipe(<<>>)]
    /\ chunk_capture = NoCapture
    /\ preliminary_result = [PreliminaryResult EXCEPT !.state = "none"]

\* execute_with_streaming up to its return with a live process (lines 617-649,
\* 761-811, 876-880)
ExecuteWithStreaming(req, shared) ==
    /\ streaming_pc = "idle"
    /\ streaming_pc' = "waiting"
    /\ streaming_req' = req
    /\ streaming_process' = [NoStreamingProcess EXCEPT !.os = "alive"]
    /\ streaming_pipe' = [c \in Channels |-> NewPipe(req[c])]
    /\ chunk_capture' = [NoCapture EXCEPT !.generator = "open",
                                          !.shared = shared]
    /\ preliminary_result' = PreliminaryResult
    /\ UNCHANGED outsideStreaming

\* create_subprocess_shell raises: the result is final and the stream is
\* error_stream (lines 882-902)
StreamingSpawnFails(req, text) ==
    /\ streaming_pc = "idle"
    /\ streaming_pc' = "done"
    /\ streaming_req' = req
    /\ chunk_capture' = [NoCapture EXCEPT !.generator = "error"]
    /\ preliminary_result' = [state |-> "spawn_error", exit_code |-> -1,
                              stdout |-> <<>>, stderr |-> <<>>,
                              suffix |-> "Error creating subprocess: " \o text,
                              execution_time |-> "elapsed",
                              completed_at |-> "now"]
    /\ UNCHANGED <<streaming_process, streaming_pipe>>
    /\ UNCHANGED outsideStreaming

\* the process writes n more bytes to one of its pipes
StreamingWrite(ch, n) ==
    /\ streaming_process.os = "alive"
    /\ n <= Len(streaming_pipe[ch].pending)
    /\ streaming_pipe' = [streaming_pipe EXCEPT
            ![ch].buffer = @ \o SubSeq(streaming_pipe[ch].pending, 1, n),
            ![ch].pending = SubSeq(@, n + 1, Len(@))]
    /\ UNCHANGED <<streaming_pc, streaming_req, streaming_process,
                   chunk_capture, preliminary_result>>
    /\ UNCHANGED outsideStreaming

\* the process ends and its pipes close: by itself once it has written
\* everything, or at any point after a signal
StreamingProcExit(rc) ==
    /\ streaming_process.os = "alive"
    /\ rc \in ExitStatuses(streaming_process.signals)
    /\ streaming_process.signals = <<>> =>
           \A c \in Channels : streaming_pipe[c].pending = <<>>
    /\ streaming_process' = [streaming_process EXCEPT !.os = "gone",
                                                      !.returncode = rc]
    /\ streaming_pipe' = [c \in Channels |->
                             [streaming_pipe[c] EXCEPT !.eof = TRUE]]
    /\ UNCHANGED <<streaming_pc, streaming_req, chunk_capture,
                   preliminary_result>>
    /\ UNCHANGED outsideStreaming

\* the caller asks capturing_stream_generator for its next fragment and gets
\* one, or the end of the stream (lines 786-798 over stream_output); after
\* the marker the loop of stream_output is broken and the next request ends
\* the stream.  error_stream (lines 898-900) yields nothing: its body reads
\* the variable e of the except clause, unbound once the clause is left, and
\* the first request raises NameError.
StreamingPull ==
    LET p == streaming_pipe["stdout"]
        n == IF Len(p.buffer) < streaming_req.buffer_size THEN Len(p.buffer)
             ELSE streaming_req.buffer_size
        s == StreamChunk(chunk_capture.total_size,
                         streaming_req.max_output_size, SubSeq(p.buffer, 1, n))
    IN /\ chunk_capture.generator \in {"open", "broken", "error"}
       /\ chunk_capture.generator = "open" => p.buffer # <<>> \/ p.eof
       /\ IF chunk_capture.generator = "open" /\ p.buffer # <<>>
          THEN /\ chunk_capture' =
                     [chunk_capture EXCEPT
                         !.generator = IF s.stop THEN "broken" ELSE "open",
                         !.total_size = s.total_size,
                         !.chunks = Append(@, s.fragment),
                         !.yielded = Append(@, s.fragment)]
               /\ streaming_pipe' =
                     [streaming_pipe EXCEPT
                         !["stdout"].buffer = SubSeq(p.buffer, n + 1, Len(p.buffer))]
          ELSE /\ chunk_capture' =
                     [chunk_capture EXCEPT
                         !.generator = "closed",
                         !.completed = chunk_capture.generator # "error"]
               /\ UNCHANGED streaming_pipe
       /\ UNCHANGED <<streaming_pc, streaming_req, streaming_process,
                      preliminary_result>>
       /\ UNCHANGED outsideStreaming

\* process.wait() is over and no timer has expired: communicate() reads what
\* is left in the pipes and the result is updated in place (lines 816-836).
\* wait_for with a timeout below zero never returns a result.
StreamingComplete ==
    /\ streaming_pc = "waiting"
    /\ streaming_process.os = "gone"
    /\ HasTimer(streaming_req.timeout) => streaming_req.timeout > 0
    /\ streaming_pc' = "done"
    /\ preliminary_result' =
           [state |-> "completed",
            exit_code |-> streaming_process.returncode,
            stdout |-> Decode(Communicate(streaming_pipe["stdout"])),
            stderr |-> Decode(Communicate(streaming_pipe["stderr"])),
            suffix |-> "",
            execution_time |-> "elapsed", completed_at |-> "now"]
    /\ streaming_pipe' = [c \in Channels |->
                             [streaming_pipe[c] EXCEPT !.buffer = <<>>]]
    /\ UNCHANGED <<streaming_req, streaming_process, chunk_capture>>
    /\ UNCHANGED outsideStreaming

\* the timer of wait_for expires before process.wait() is over, and
\* _kill_process_group runs to its sleep or to its end (lines 818, 848-852)
StreamingTimerExpires ==
    /\ streaming_pc = "waiting"
    /\ HasTimer(streaming_req.timeout)
    /\ LET k == KillProcessGroup(streaming_process, streaming_process.signals)
       IN /\ streaming_process' = [streaming_process EXCEPT !.signals = k.signals]
          /\ streaming_pc' = IF k.kind = "sleep" THEN "grace" ELSE "killed"
    /\ UNCHANGED <<streaming_req, streaming_pipe, chunk_capture,
                   preliminary_result>>
    /\ UNCHANGED outsideStreaming

\* _kill_process_group after its sleep (lines 556-563)
StreamingGraceOver ==
    /\ streaming_pc = "grace"
    /\ streaming_pc' = "killed"
    /\ streaming_process' =
           [streaming_process EXCEPT
               !.signals = IF streaming_process.os = "alive"
                           THEN Append(@, "SIGKILL") ELSE @]
    /\ UNCHANGED <<streaming_req, streaming_pipe, chunk_capture,
                   preliminary_result>>
    /\ UNCHANGED outsideStreaming

\* the timeout handler updates the result (lines 854-862)
StreamingTimeoutResult ==
    /\ streaming_pc = "killed"
    /\ streaming_pc' = "done"
    /\ preliminary_result' =
           [preliminary_result EXCEPT
               !.state = "timeout",
               !.exit_code = -1,
               !.suffix = TimeoutMessage(streaming_req.timeout),
               !.execution_time = "elapsed",
               !.completed_at = "now"]
    /\ UNCHANGED <<streaming_req, streaming_process, streaming_pipe,
                   chunk_capture>>
    /\ UNCHANGED outsideStreaming

StreamingNext ==
    \/ \E req \in StreamingRequests, shared \in BOOLEAN :
          ExecuteWithStreaming(req, shared)
    \/ \E req \in StreamingRequests, text \in SpawnErrorTexts :
          StreamingSpawnFails(req, text)
    \/ \E ch \in Channels, n \in 1..MaxSepLen : StreamingWrite(ch, n)
    \/ \E rc \in NaturalCodes \cup {RcSigterm, RcSigkill} : StreamingProcExit(rc)
    \/ StreamingPull
    \/ StreamingComplete
    \/ StreamingTimerExpires
    \/ StreamingGraceOver
    \/ StreamingTimeoutResult

(***************************************************************************)
(* CommandExecutor: execute_with_separated_streaming                       *)
(***************************************************************************)
\* the text of a "[STDOUT TRUNCATED: ...]" fragment, as one character
TruncatedText == 0

\* ''.join(chunks) (lines 989-990, 1023-1024)
RECURSIVE Join(_)
Join(fs) ==
    IF fs = <<>> THEN <<>>
    ELSE (IF fs[1].marker THEN <<TruncatedText>> ELSE fs[1].text) \o Join(Tail(fs))

NoTask == [pc |-> "idle", timeout |-> None, os |-> "none", returncode |-> None,
           signals |-> <<>>]
\* the CommandResult of lines 959-968; stderr is its text followed by suffix
SeparatedPreliminary ==
    [state |-> "preliminary", exit_code |-> 0, stdout |-> <<>>, stderr |-> <<>>,
     suffix |-> "", captured_chunks |-> <<>>,
     execution_time |-> "0.0", completed_at |-> "started_at"]

SeparatedInit ==
    /\ separated_task = NoTask
    /\ separated_result = [SeparatedPreliminary EXCEPT !.state = "none"]

\* execute_with_separated_streaming up to its return with a live process
\* (lines 692-724, 914-968, 1040-1044)
ExecuteWithSeparatedStreaming(req) ==
    /\ sep_pc = "idle"
    /\ separated_task.pc = "idle"
    /\ sep_pc' = "stdout"
    /\ sep_cfg' = [buffer_size |-> req.buffer_size,
                   max_output_size |-> req.max_output_size,
                   content |-> [c \in Channels |-> req[c]]]
    /\ sep_pipe' = [c \in Channels |-> NewPipe(req[c])]
    /\ separated_task' = [NoTask EXCEPT !.pc = "waiting", !.os = "alive",
                                        !.timeout = req.timeout]
    /\ separated_result' = SeparatedPreliminary
    /\ UNCHANGED <<sep_gen, sep_held, sep_out>>
    /\ UNCHANGED outsideSeparated

\* create_subprocess_shell raises: the result is final and the stream is
\* error_separated_stream (lines 1046-1066), which raises NameError at its
\* first request as error_stream does
SeparatedSpawnFails(text) ==
    /\ sep_pc = "idle"
    /\ separated_task.pc = "idle"
    /\ sep_pc' = "error_stream"
    /\ separated_task' = [NoTask EXCEPT !.pc = "done"]
    /\ separated_result' = [SeparatedPreliminary EXCEPT
                               !.state = "spawn_error", !.exit_code = -1,
                               !.suffix = "Error creating subprocess: " \o text,
                               !.execution_time = "elapsed",
                               !.completed_at = "now"]
    /\ UNCHANGED <<sep_cfg, sep_pipe, sep_gen, sep_held, sep_out>>
    /\ UNCHANGED outsideSeparated

\* the process ends and its pipes close: by itself once it has written
\* everything, or at any point after a signal, leaving the rest unwritten
SeparatedProcExit(rc) ==
    /\ separated_task.os = "alive"
    /\ rc \in ExitStatuses(separated_task.signals)
    /\ separated_task.signals = <<>> =>
           \A c \in Channels : sep_pipe[c].pending = <<>>
    /\ separated_task' = [separated_task EXCEPT !.os = "gone", !.returncode = rc]
    /\ sep_pipe' = [c \in Channels |->
                       [sep_pipe[c] EXCEPT !.eof = TRUE, !.pending = <<>>]]
    /\ UNCHANGED <<sep_pc, sep_cfg, sep_gen, sep_held, sep_out, separated_result>>
    /\ UNCHANGED outsideSeparated

\* process.wait() is over and no timer has expired: communicate() reads what
\* is left in the pipes, and the result is the chunks stored so far followed
\* by it (lines 973-999); a chunk the merge loop holds while it tries the
\* other channel is not stored yet
SeparatedComplete ==
    /\ separated_task.pc = "waiting"
    /\ separated_task.os = "gone"
    /\ HasTimer(separated_task.timeout) => separated_task.timeout > 0
    /\ separated_task' = [separated_task EXCEPT !.pc = "done"]
    /\ separated_result' =
           [state |-> "completed",
            exit_code |-> separated_task.returncode,
            stdout |-> Join(sep_out["stdout"])
                          \o Decode(Communicate(sep_pipe["stdout"])),
            stderr |-> Join(sep_out["stderr"])
                          \o Decode(Communicate(sep_pipe["stderr"])),
            suffix |-> "",
            captured_chunks |-> sep_out["stdout"] \o sep_out["stderr"],
            execution_time |-> "elapsed", completed_at |-> "now"]
    /\ sep_pipe' = [c \in Channels |-> [sep_pipe[c] EXCEPT !.buffer = <<>>]]
    /\ UNCHANGED <<sep_pc, sep_cfg, sep_gen, sep_held, sep_out>>
    /\ UNCHANGED outsideSeparated

\* the timer of wait_for expires before process.wait() is over, and
\* _kill_process_group runs to its sleep or to its end (lines 975, 1011-1015)
SeparatedTimerExpires ==
    /\ separated_task.pc = "waiting"
    /\ HasTimer(separated_task.timeout)
    /\ LET k == KillProcessGroup(separated_task, separated_task.signals)
       IN separated_task' =
              [separated_task EXCEPT
                  !.signals = k.signals,
                  !.pc = IF k.kind = "sleep" THEN "grace" ELSE "killed"]
    /\ UNCHANGED <<sepVars, separated_result>>
    /\ UNCHANGED outsideSeparated

\* _kill_process_group after its sleep (lines 556-563)
SeparatedGraceOver ==
    /\ separated_task.pc = "grace"
    /\ separated_task' =
           [separated_task EXCEPT
               !.pc = "killed",
               !.signals = IF separated_task.os = "alive"
                           THEN Append(@, "SIGKILL") ELSE @]
    /\ UNCHANGED <<sepVars, separated_result>>
    /\ UNCHANGED outsideSeparated

\* the timeout handler updates the result (lines 1017-1026)
SeparatedTimeoutResult ==
    /\ separated_task.pc = "killed"
    /\ separated_task' = [separated_task EXCEPT !.pc = "done"]
    /\ separated_result' =
           [separated_result EXCEPT
               !.state = "timeout",
               !.exit_code = -1,
               !.stdout = Join(sep_out["stdout"]),
               !.stderr = Join(sep_out["stderr"]),
               !.suffix = "\n" \o TimeoutMessage(separated_task.timeout),
               !.execution_time = "elapsed",
               !.completed_at = "now"]
    /\ UNCHANGED sepVars
    /\ UNCHANGED outsideSeparated

\* SepWrite, SepClose and MergeStep leave the task and the result alone
SeparatedNext ==
    \/ \E req \in StreamingRequests : ExecuteWithSeparatedStreaming(req)
    \/ \E text \in SpawnErrorTexts : SeparatedSpawnFails(text)
    \/ \E ch \in Channels, n \in 1..MaxSepLen :
          separated_task.os = "alive" /\ SepWrite(ch, n)
    \/ \E ch \in Channels : separated_task.os = "alive" /\ SepClose(ch)
    \/ \E rc \in ReturnCodes : SeparatedProcExit(rc)
    \/ separated_task.pc # "idle" /\ MergeStep
    \/ SeparatedComplete
    \/ SeparatedTimerExpires
    \/ SeparatedGraceOver
    \/ SeparatedTimeoutResult

(***************************************************************************)
(* CommandExecutor.execute: environment and log                            *)
(***************************************************************************)
\* number of execute calls in flight at once
MaxEnvCalls == 2
EnvCalls == 1..MaxEnvCalls
\* a value of request.environment_variables: a str, or an object of another
\* type, which the isinstance test of line 224 looks for
StrValue(text) == [type |-> "str", text |-> text]
IntValue(text) == [type |-> "int", text |-> text]
EnvValues == {StrValue("a"), StrValue("b"), IntValue("7")}
\* os.environ when the server starts
ParentEnviron == ("HOME" :> StrValue("/root"))
\* request.environment_variables: overrides of an inherited and of a new name
EnvOverrides ==
    UNION {[names -> EnvValues] : names \in SUBSET {"HOME", "TOKEN"}}

\* the entries of request.environment_variables the loop of lines 223-227
\* skips, and those it applies
InvalidEntries(overrides) ==
    {n \in DOMAIN overrides : overrides[n].type # "str"}

\* env = os.environ.copy() with the valid overrides written over it
\* (lines 220-227)
ApplyOverrides_Shared(base, overrides) == base
ApplyOverrides(base, overrides) ==
    [n \in DOMAIN base \cup (DOMAIN overrides \ InvalidEntries(overrides)) |->
        IF n \in DOMAIN overrides \ InvalidEntries(overrides)
        THEN overrides[n] ELSE base[n]]

\* a log record, by what an environment variable contributes to its text: the
\* names, the values and the count that were formatted into it
LogRecord(site, names, values, count) ==
    [site |-> site, names |-> names, values |-> values, count |-> count]

\* the debug records of lines 185-189
LogNames_WithValues(overrides) ==
    {LogRecord("debug", DOMAIN overrides,
               {overrides[n] : n \in DOMAIN overrides}, Cardinality(DOMAIN overrides))}
LogNames(overrides) ==
    {LogRecord("debug", {}, {}, Cardinality(DOMAIN overrides))}
        \cup IF overrides # <<>>
             THEN {LogRecord("debug", DOMAIN overrides, {}, 0)}
             ELSE {}

\* the warning of line 225, one record per skipped entry
LogInvalid(overrides) ==
    {LogRecord("warning", {n}, {overrides[n]}, 0) : n \in InvalidEntries(overrides)}

\* the audit record of lines 47-66: whether there are overrides, and how many
LogAudit(overrides) ==
    {LogRecord("audit", {}, {}, Cardinality(DOMAIN overrides))}

NoEnvCall == [pc |-> "idle", overrides |-> <<>>, env |-> <<>>, child |-> <<>>]

EnvInit ==
    /\ environ = ParentEnviron
    /\ env_call = [c \in EnvCalls |-> NoEnvCall]
    /\ env_log = {}

\* execute from its entry to create_subprocess_shell (lines 178-243)
EnvExecuteBegin(c, overrides) ==
    /\ env_call[c].pc = "idle"
    /\ env_call' = [env_call EXCEPT ![c] =
                       [pc |-> "prepared", overrides |-> overrides,
                        env |-> ApplyOverrides(environ, overrides),
                        child |-> <<>>]]
    /\ env_log' = env_log \cup LogNames(overrides) \cup LogInvalid(overrides)
    /\ UNCHANGED environ
    /\ UNCHANGED outsideEnv

\* create_subprocess_shell(..., env=env): the child starts with the call's env
\* (lines 314-321, 500-507)
EnvSpawn(c) ==
    /\ env_call[c].pc = "prepared"
    /\ env_call' = [env_call EXCEPT ![c].pc = "running",
                                    ![c].child = env_call[c].env]
    /\ UNCHANGED <<environ, env_log>>
    /\ UNCHANGED outsideEnv

\* the command has ended: execute logs its audit record and returns
\* (lines 245-275)
EnvExecuteReturn(c) ==
    /\ env_call[c].pc = "running"
    /\ env_call' = [env_call EXCEPT ![c].pc = "done"]
    /\ env_log' = env_log \cup LogAudit(env_call[c].overrides)
    /\ UNCHANGED environ
    /\ UNCHANGED outsideEnv

EnvNext ==
    \/ \E c \in EnvCalls, overrides \in EnvOverrides : EnvExecuteBegin(c, overrides)
    \/ \E c \in EnvCalls : EnvSpawn(c)
    \/ \E c \in EnvCalls : EnvExecuteReturn(c)

(***************************************************************************)
(* OutputStreamer: buffer_size and its setters                             *)
(***************************************************************************)
\* largest buffer size a caller asks for
MaxSize == 5
\* the sizes callers pass: negative, zero, positive
Sizes == -1..MaxSize

NoStreamer == [built |-> FALSE, buffer_size |-> 0, original_buffer_size |-> 0,
               max_output_size |-> 0, op |-> "none", arg |-> 0, raised |-> FALSE]

\* the test both the constructor and the setter make (lines 25, 46)
RejectsSize_OnlyNegative(size) == size < 0
RejectsSize(size) == size <= 0

BufferInit == streamer = NoStreamer

\* OutputStreamer(buffer_size, max_output_size) (lines 14-35); when it raises
\* there is no new object and the one at hand stays
OutputStreamerNew(size, ceiling) ==
    /\ streamer' =
          IF RejectsSize(size) \/ ceiling <= 0
          THEN [streamer EXCEPT !.op = "new", !.arg = size, !.raised = TRUE]
          ELSE [built |-> TRUE, buffer_size |-> size,
                original_buffer_size |-> size, max_output_size |-> ceiling,
                op |-> "new", arg |-> size, raised |-> FALSE]
    /\ UNCHANGED outsideBuffer

\* adjust_buffer_size (lines 37-52)
StreamerAdjustBufferSize(size) ==
    /\ streamer.built
    /\ streamer' =
          IF RejectsSize(size)
          THEN [streamer EXCEPT !.op = "adjust", !.arg = size, !.raised = TRUE]
          ELSE [streamer EXCEPT !.op = "adjust", !.arg = size, !.raised = FALSE,
                                !.buffer_size = size]
    /\ UNCHANGED outsideBuffer

\* reset_buffer_size (lines 54-58)
StreamerResetBufferSize ==
    /\ streamer.built
    /\ streamer' = [streamer EXCEPT !.op = "reset", !.arg = 0, !.raised = FALSE,
                                    !.buffer_size = streamer.original_buffer_size]
    /\ UNCHANGED outsideBuffer

BufferNext ==
    \/ \E size \in Sizes, ceiling \in 0..1 : OutputStreamerNew(size, ceiling)
    \/ \E size \in Sizes : StreamerAdjustBufferSize(size)
    \/ StreamerResetBufferSize

(***************************************************************************)
(* CommandExecutor: the audit trail                                        *)
(***************************************************************************)
\* execute, execute_with_streaming, execute_with_separated_streaming
Modes == {"blocking", "streaming", "separated"}
\* how an execution ends
Outcomes == {"success", "nonzero", "validation", "timeout", "error"}
\* what the audit record takes from a request: the working directory ("" for
\* none), the number of environment overrides, the timeout
AuditRequests == [working_directory : {"", "/tmp"}, env_var_count : 0..1,
                  timeout : {None, 1}]
\* the request the completion tasks of the streaming modes make up for the
\* audit: CommandRequest(command=command, capture_output=True) (lines 842-846,
\* 1005-1009)
SubstituteRequest == [working_directory |-> "", env_var_count |-> 0,
                      timeout |-> None]

ExitCodeOf(outcome) ==
    IF outcome = "success" THEN 0 ELSE IF outcome = "nonzero" THEN 1 ELSE -1

\* audit_data of _log_command_audit (lines 47-62)
LogCommandAudit(req, exit_code) ==
    [working_directory |-> req.working_directory,
     environment_var_count |-> req.env_var_count,
     timeout |-> req.timeout, exit_code |-> exit_code]

\* the audit records an execution emits on its way out
\*  - execute: one for a returned result (line 269), one in the handler of
\*    every failure (line 298);
\*  - the streaming modes: one when the process has ended by itself, for the
\*    substitute request (lines 842-846, 1005-1009); none on the timeout path
\*    (lines 848-863, 1011-1027), on the error path (lines 865-874,
\*    1029-1038) or when the spawn fails (lines 882-902, 1046-1066)
AuditRecords(mode, req, outcome) ==
    IF mode = "blocking"
    THEN <<LogCommandAudit(req, ExitCodeOf(outcome))>>
    ELSE IF outcome \in {"success", "nonzero"}
    THEN <<LogCommandAudit(SubstituteRequest, ExitCodeOf(outcome))>>
    ELSE <<>>

NoAuditCall == [pc |-> "idle", mode |-> "blocking",
                request |-> SubstituteRequest, outcome |-> "success"]

AuditInit ==
    /\ audit_call = NoAuditCall
    /\ audit_log = <<>>

\* an execution starts in one of the modes
AuditBegin(mode, req) ==
    /\ audit_call.pc = "idle"
    /\ audit_call' = [pc |-> "running", mode |-> mode, request |-> req,
                      outcome |-> "success"]
    /\ UNCHANGED audit_log
    /\ UNCHANGED outsideAudit

\* the execution is over: execute returns, or the completion task of a
\* streaming mode has finalised the result
AuditFinish(outcome) ==
    /\ audit_call.pc = "running"
    /\ audit_call' = [audit_call EXCEPT !.pc = "done", !.outcome = outcome]
    /\ audit_log' = audit_log \o AuditRecords(audit_call.mode,
                                              audit_call.request, outcome)
    /\ UNCHANGED outsideAudit

AuditNext ==
    \/ \E mode \in Modes, req \in AuditRequests : AuditBegin(mode, req)
    \/ \E outcome \in Outcomes : AuditFinish(outcome)

(***************************************************************************)
(* CommandExecutor: capturing execute with no timeout, on a bounded pipe   *)
(***************************************************************************)
\* most bytes a command writes
MaxWrite == 5
\* bytes the kernel pipe and the StreamReader buffer hold together before a
\* write of the child blocks
PipeCapacity == 2

\* The bytes a command writes are numbered from 1 in the order of writing; a
\* text is the bytes first .. first + len - 1, followed by the truncation
\* marker or not
NoText == [first |-> 1, len |-> 0, marker |-> FALSE]
\* the reader of a call: total_size is what the drain task has read from the
\* pipe, content what it has kept in content_parts, partial what the salvage
\* read of the timeout handler has obtained
NewReader(size, ceiling) ==
    [total_size |-> 0, content |-> 0, returned |-> FALSE,
     max_output_size |-> ceiling, buffer_size |-> size, partial |-> NoText]

CaptureInit ==
    /\ capture_pc = "idle"
    /\ capture_proc = [os |-> "none", to_write |-> 0, status |-> 0]
    /\ capture_pipe = 0
    /\ capture_reader = NewReader(1, 1)
    /\ capture_result = [exit_code |-> None, stdout |-> NoText]

\* execute with capture_output and no timeout spawns a command that writes n
\* bytes and then exits with rc; capture_with_timeout starts the drain task
\* and the wait task (lines 314-346)
CaptureBegin(n, rc, size, ceiling) ==
    /\ capture_pc = "idle"
    /\ capture_pc' = "waiting"
    /\ capture_proc' = [os |-> "alive", to_write |-> n, status |-> rc]
    /\ capture_reader' = NewReader(size, ceiling)
    /\ UNCHANGED <<capture_pipe, capture_result>>
    /\ UNCHANGED outsideCapture

\* the child writes k more bytes: the write goes through only while there is
\* room, otherwise the child stays blocked in it
CaptureProcWrite(k) ==
    /\ capture_proc.os = "alive"
    /\ k <= capture_proc.to_write
    /\ capture_pipe + k <= PipeCapacity
    /\ capture_proc' = [capture_proc EXCEPT !.to_write = @ - k]
    /\ capture_pipe' = capture_pipe + k
    /\ UNCHANGED <<capture_pc, capture_reader, capture_result>>
    /\ UNCHANGED outsideCapture

\* the child has written everything and exits
CaptureProcExit ==
    /\ capture_proc.os = "alive"
    /\ capture_proc.to_write = 0
    /\ capture_proc' = [capture_proc EXCEPT !.os = "gone"]
    /\ UNCHANGED <<capture_pc, capture_pipe, capture_reader, capture_result>>
    /\ UNCHANGED outsideCapture

\* one turn of the loop of _read_stream_until_timeout on a chunk of k bytes
\* (lines 449-462): past the ceiling it appends the marker and returns
ReadStreamUntilTimeout(k) ==
    /\ capture_pc = "waiting"
    /\ ~capture_reader.returned
    /\ k <= capture_reader.buffer_size
    /\ k <= capture_pipe
    /\ capture_pipe' = capture_pipe - k
    /\ capture_reader' =
          [capture_reader EXCEPT
              !.total_size = @ + k,
              !.content = IF OverLimit(capture_reader.total_size + k,
                                       capture_reader.max_output_size)
                          THEN @ ELSE @ + k,
              !.returned = OverLimit(capture_reader.total_size + k,
                                     capture_reader.max_output_size)]
    /\ UNCHANGED <<capture_pc, capture_proc, capture_result>>
    /\ UNCHANGED outsideCapture

\* read returns b"" at EOF and _read_stream_until_timeout returns (lines
\* 451-453)
ReadStreamEof ==
    /\ capture_pc = "waiting"
    /\ ~capture_reader.returned
    /\ capture_proc.os = "gone"
    /\ capture_pipe = 0
    /\ capture_reader' = [capture_reader EXCEPT !.returned = TRUE]
    /\ UNCHANGED <<capture_pc, capture_proc, capture_pipe, capture_result>>
    /\ UNCHANGED outsideCapture

\* what the drain task returns: ''.join(content_parts) (lines 484-486)
DrainedContent ==
    [first |-> 1, len |-> capture_reader.content,
     marker |-> OverLimit(capture_reader.total_size,
                          capture_reader.max_output_size)]

\* asyncio.wait(tasks, return_when=ALL_COMPLETED) has the drain task and
\* process.wait() done: execute returns process.returncode (lines 348-380)
CaptureReturn ==
    /\ capture_pc = "waiting"
    /\ capture_reader.returned
    /\ capture_proc.os = "gone"
    /\ capture_pc' = "done"
    /\ capture_result' = [exit_code |-> capture_proc.status,
                          stdout |-> DrainedContent]
    /\ UNCHANGED <<capture_proc, capture_pipe, capture_reader>>
    /\ UNCHANGED outsideCapture

\* the timer of wait_for expires before the drain task and process.wait()
\* are both over; wait_for cancels capture_with_timeout, whose result is
\* lost, and the handler makes its one read of what is at hand in the
\* StreamReader, s bytes (lines 377, 382-399): none when the drain task is
\* waiting in read itself (RuntimeError) or the 0.05 s pass without data
CaptureTimerExpires(s) ==
    /\ capture_pc = "waiting"
    /\ ~(capture_reader.returned /\ capture_proc.os = "gone")
    /\ s <= capture_pipe
    /\ capture_pc' = "expired"
    /\ capture_pipe' = capture_pipe - s
    /\ capture_reader' =
          [capture_reader EXCEPT
              !.partial = [first |-> capture_reader.total_size + 1,
                           len |-> s, marker |-> FALSE]]
    /\ UNCHANGED <<capture_proc, capture_result>>
    /\ UNCHANGED outsideCapture

\* the stdout of the timeout result: partial_stdout (lines 384, 396, 427)
PartialStdout_WithDrained(salvaged) ==
    [first |-> 1, len |-> capture_reader.content + salvaged.len,
     marker |-> FALSE]
PartialStdout(salvaged) == salvaged

\* _kill_process_group and the wait for cleanup are over; execute returns
\* the timeout result (lines 411-427)
CaptureTimeoutReturn ==
    /\ capture_pc = "expired"
    /\ capture_pc' = "done"
    /\ capture_proc' = [capture_proc EXCEPT !.os = "gone"]
    /\ capture_result' = [exit_code |-> -1,
                          stdout |-> PartialStdout(capture_reader.partial)]
    /\ UNCHANGED <<capture_pipe, capture_reader>>
    /\ UNCHANGED outsideCapture

CaptureNext ==
    \/ \E n \in 0..MaxWrite, rc \in {0, 1}, size \in 1..MaxBuffer,
          ceiling \in 1..MaxCeiling : CaptureBegin(n, rc, size, ceiling)
    \/ \E k \in 1..MaxWrite : CaptureProcWrite(k)
    \/ CaptureProcExit
    \/ \E k \in 1..MaxBuffer : ReadStreamUntilTimeout(k)
    \/ ReadStreamEof
    \/ CaptureReturn

(***************************************************************************)
(* Termination of a process: CommandExecutor._kill_process_group with its  *)
(* fallback _terminate_individual_process, and ProcessManager.kill_process *)
(***************************************************************************)
\* steps of the other tasks of the event loop are counted modulo MaxTicks
MaxTicks == 3
TermKinds == {"executor", "registry"}

TermInit ==
    /\ term_pc = "idle"
    /\ term_kind = "executor"
    /\ term_proc = [os |-> "none", returncode |-> None, held |-> FALSE]
    /\ term_signals = <<>>
    /\ term_ticks = 0

\* a command runs under the executor or under the registry; held says that a
\* background child of the command keeps the pipes of the command open
TermSpawn(kind, held) ==
    /\ term_pc = "idle"
    /\ term_pc' = "running"
    /\ term_kind' = kind
    /\ term_proc' = [os |-> "alive", returncode |-> None, held |-> held]
    /\ term_signals' = <<>>
    /\ UNCHANGED term_ticks
    /\ UNCHANGED outsideTerm

\* the process ends, by itself or by a signal it received
TermProcExit ==
    /\ term_proc.os = "alive"
    /\ term_proc' = [term_proc EXCEPT !.os = "exited"]
    /\ UNCHANGED <<term_pc, term_kind, term_signals, term_ticks>>
    /\ UNCHANGED outsideTerm

\* the watcher thread reaps the ended process; it is a thread of its own and
\* runs whatever the scheduler thread does
TermProcReap ==
    /\ term_proc.os = "exited"
    /\ term_proc' = [term_proc EXCEPT !.os = "gone"]
    /\ UNCHANGED <<term_pc, term_kind, term_signals, term_ticks>>
    /\ UNCHANGED outsideTerm

\* the scheduler thread is free unless it sits in time.sleep (line 592)
SchedulerFree == term_pc # "blocked"

\* the callback of the watcher runs on the scheduler thread and sets
\* returncode
TermLoopNotify ==
    /\ SchedulerFree
    /\ term_proc.os = "gone"
    /\ term_proc.returncode = None
    /\ term_proc' = [term_proc EXCEPT !.returncode = 0]
    /\ UNCHANGED <<term_pc, term_kind, term_signals, term_ticks>>
    /\ UNCHANGED outsideTerm

\* another in-flight execution, a stream drain or a registry operation makes
\* a step on the scheduler thread
OtherTaskStep ==
    /\ term_pc # "idle"
    /\ SchedulerFree
    /\ term_ticks' = (term_ticks + 1) % MaxTicks
    /\ UNCHANGED <<term_pc, term_kind, term_proc, term_signals>>
    /\ UNCHANGED outsideTerm

\* the transport of the process is closed once its exit is known and its
\* pipes have reached their end
TransportClosed == term_proc.returncode # None /\ ~term_proc.held

Signal(sig, graced) ==
    [sig |-> sig, target |-> "group", os |-> term_proc.os, graced |-> graced]

\* command_executor.py lines 547-554 and 565-568, process_manager.py lines
\* 133-137 and 143-148: os.getpgid raises ProcessLookupError for a reaped
\* process; otherwise SIGTERM goes to the group and the coroutine sleeps.
\* The fallback of the executor calls process.terminate(), which raises on a
\* closed transport and signals nothing to a process that is gone, and then
\* time.sleep(0.5)
TermEnter ==
    /\ term_pc = "running"
    /\ IF term_proc.os # "gone"
       THEN /\ term_signals' = Append(term_signals, Signal("SIGTERM", FALSE))
            /\ term_pc' = "grace"
       ELSE /\ term_signals' = term_signals
            /\ term_pc' = IF term_kind = "executor" /\ ~TransportClosed
                          THEN "blocked" ELSE "done"
    /\ UNCHANGED <<term_kind, term_proc, term_ticks>>
    /\ UNCHANGED outsideTerm

\* command_executor.py lines 556-563, process_manager.py lines 140-148: after
\* the sleep, SIGKILL goes to the group when returncode is still None and
\* os.getpgid still finds the process
TermAfterGrace ==
    /\ term_pc = "grace"
    /\ term_pc' = "done"
    /\ IF term_proc.returncode = None /\ term_proc.os # "gone"
       THEN /\ term_signals' = Append(term_signals, Signal("SIGKILL", TRUE))
            /\ term_proc' = [term_proc EXCEPT !.os =
                                IF @ = "alive" THEN "exited" ELSE @]
       ELSE UNCHANGED <<term_signals, term_proc>>
    /\ UNCHANGED <<term_kind, term_ticks>>
    /\ UNCHANGED outsideTerm

\* _terminate_individual_process lines 592-596: time.sleep returns;
\* process.kill() signals nothing to a process that is gone
TerminateIndividualProcess ==
    /\ term_pc = "blocked"
    /\ term_pc' = "done"
    /\ UNCHANGED <<term_kind, term_proc, term_signals, term_ticks>>
    /\ UNCHANGED outsideTerm

\* the call has returned; the next command may start
TermReturn ==
    /\ term_pc = "done"
    /\ term_pc' = "idle"
    /\ term_proc' = [os |-> "none", returncode |-> None, held |-> FALSE]
    /\ term_ticks' = 0
    /\ UNCHANGED <<term_kind, term_signals>>
    /\ UNCHANGED outsideTerm

TermNext ==
    \/ \E kind \in TermKinds, held \in BOOLEAN : TermSpawn(kind, held)
    \/ TermProcExit
    \/ TermProcReap
    \/ TermLoopNotify
    \/ OtherTaskStep
    \/ TermEnter
    \/ TermAfterGrace
    \/ TerminateIndividualProcess
    \/ TermReturn

(***************************************************************************)
(* Specifications                                                          *)
(***************************************************************************)
Init ==
    /\ PMInit /\ ExecInit /\ StreamInit /\ SepInit /\ StreamingInit
    /\ SeparatedInit /\ EnvInit /\ BufferInit
    /\ AuditInit /\ CaptureInit /\ TermInit

SpecPM == Init /\ [][PMNext]_vars
SpecExec == Init /\ [][ExecNext]_vars
SpecStream == Init /\ [][StreamNext]_vars
SpecSep == Init /\ [][SepNext]_vars
SpecStreaming == Init /\ [][StreamingNext]_vars
SpecSeparated == Init /\ [][SeparatedNext]_vars
SpecEnv == Init /\ [][EnvNext]_vars
SpecBuffer == Init /\ [][BufferNext]_vars
SpecAudit == Init /\ [][AuditNext]_vars
SpecTerm == Init /\ [][TermNext]_vars
\* the operating system runs a child that can run, and the event loop runs a
\* task that is ready
SpecCapture ==
    /\ Init /\ [][CaptureNext]_vars
    /\ WF_vars(\E k \in 1..MaxWrite : CaptureProcWrite(k))
    /\ WF_vars(CaptureProcExit)
    /\ WF_vars(\E k \in 1..MaxBuffer : ReadStreamUntilTimeout(k))
    /\ WF_vars(ReadStreamEof)
    /\ WF_vars(CaptureReturn)
\* one OutputStreamer serving one call, stream_output or
\* stream_output_with_separation, on pipes that may fail
ReadFailureNext ==
    \/ sep_pc = "idle" /\ StreamNext
    \/ stream_pc = "idle" /\ SepNext
SpecReadFailure == Init /\ [][ReadFailureNext]_vars
\* a capturing execute with a timeout
CaptureTimeoutNext ==
    \/ CaptureNext
    \/ \E s \in 0..PipeCapacity : CaptureTimerExpires(s)
    \/ CaptureTimeoutReturn
SpecCaptureTimeout == Init /\ [][CaptureTimeoutNext]_vars
\* one call of either streaming mode, with any timeout
StreamingModesNext ==
    \/ separated_task.pc = "idle" /\ StreamingNext
    \/ streaming_pc = "idle" /\ SeparatedNext
SpecStreamingModes == Init /\ [][StreamingModesNext]_vars

\* One call of either streaming mode with a timeout above zero.  The sleep of
\* _kill_process_group ends and the handler that awaits it goes on: the
\* event loop runs every task that is ready.
TimeoutRequests == {req \in StreamingRequests : req.timeout = 1}
TimeoutNext ==
    \/ /\ separated_task.pc = "idle"
       /\ \/ \E req \in TimeoutRequests, shared \in BOOLEAN :
                ExecuteWithStreaming(req, shared)
          \/ \E ch \in Channels, n \in 1..MaxSepLen : StreamingWrite(ch, n)
          \/ \E rc \in ReturnCodes : StreamingProcExit(rc)
          \/ StreamingPull
          \/ StreamingComplete
          \/ StreamingTimerExpires
          \/ StreamingGraceOver
          \/ StreamingTimeoutResult
    \/ /\ streaming_pc = "idle"
       /\ \/ \E req \in TimeoutRequests : ExecuteWithSeparatedStreaming(req)
          \/ \E ch \in Channels, n \in 1..MaxSepLen :
                separated_task.os = "alive" /\ SepWrite(ch, n)
          \/ \E ch \in Channels : separated_task.os = "alive" /\ SepClose(ch)
          \/ \E rc \in ReturnCodes : SeparatedProcExit(rc)
          \/ separated_task.pc # "idle" /\ MergeStep
          \/ SeparatedComplete
          \/ SeparatedTimerExpires
          \/ SeparatedGraceOver
          \/ SeparatedTimeoutResult
SpecTimeout ==
    /\ Init
    /\ [][TimeoutNext]_vars
    /\ WF_vars(StreamingGraceOver) /\ WF_vars(StreamingTimeoutResult)
    /\ WF_vars(SeparatedGraceOver) /\ WF_vars(SeparatedTimeoutResult)

(***************************************************************************)
(* Claims on ProcessManager                                                *)
(***************************************************************************)
TerminalStatuses == {COMPLETED, FAILED, KILLED}

\* C1: a kill(id) call made after an earlier kill(id) call has returned, with
\* no restart(id) in between, returns false.
C1_SecondKillReturnsFalse ==
    (last.op = "kill" /\ last.after) => last.ret = "False"

\* C2: a record whose status is Completed, Failed or Killed keeps that status
\* in every step that does not remove the record.
C2_TerminalStatusStable ==
    [][\A i \in DOMAIN processes \cap DOMAIN processes' :
          processes[i].status \in TerminalStatuses
              => processes'[i].status = processes[i].status]_vars

\* C3: once restart(id) on a Running record has returned, every status(id)
\* call on the still-tracked original id returns Killed.
C3_RestartedStaysKilled ==
    (last.op = "status" /\ last.after) => last.ret = KILLED

\* C4: every kill(id) call hands back a boolean, never an exception, whatever
\* the record's status, the child's state, and whatever ran during its sleep.
C4_KillNeverRaises ==
    last.op = "kill" => last.ret \in {"True", "False"}

\* C4 witness: a kill that slept through its grace window came back with False:
\* its record was removed meanwhile and the KeyError of line 148 was caught.
C4_Witness ==
    last.op = "kill" /\ last.slept /\ last.ret = "False"

(***************************************************************************)
(* Claims on the blocking execute                                          *)
(***************************************************************************)
\* s ends with the text t
EndsWith(s, t) == Len(s) >= Len(t) /\ SubSeq(s, Len(s) - Len(t) + 1, Len(s)) = t

\* C5: execute hands back a CommandResult and never raises, and when the
\* framework detected the failure (validation, spawn error, timeout) the
\* result has exit_code -1 and a non-empty stderr.
C5_ExecuteNeverRaises ==
    exec_pc = "done" =>
        /\ result.kind = "result"
        /\ failure # "none" => result.exit_code = -1 /\ result.stderr # ""

\* C5 witness: execute has returned from a request whose working directory
\* failed the validation.
C5_Witness ==
    exec_pc = "done" /\ failure = "validation" /\ result.exit_code = -1

\* C6: when the timer expired while the command was still running, execute
\* returns only after a signal went to the process group, with exit_code -1
\* and a stderr that ends in "timed out after N seconds".  Stated for the
\* calls whose command has not ended by itself when execute returns: a
\* command that ends between the expiry and the return leaves nothing to signal.
C6_TimeoutSignalsGroup ==
    (exec_pc = "done" /\ failure = "timeout" /\ timer.running /\ GroupRunning) =>
        /\ signals # <<>>
        /\ result.exit_code = -1
        /\ EndsWith(result.stderr,
                    "timed out after " \o ToString(request.timeout) \o " seconds")

\* C7: when the child ended by itself and, if the timer expired at all, its
\* return code was known before, execute returns that return code as
\* exit_code, with or without capture, however long the pipes stay open.
C7_NaturalExitCode ==
    (/\ exec_pc = "done"
     /\ process.os = "gone"
     /\ signals = <<>>
     /\ timer.expired => timer.seen)
        => result.exit_code = process.status

(***************************************************************************)
(* Claims on stream_output                                                 *)
(***************************************************************************)
Markers == {k \in 1..Len(fragments) : fragments[k].marker}

\* C8: however the source is split into reads, the fragments yielded before
\* any marker are decoded from at most max_output_size bytes and hold at most
\* that many characters; a marker is the last fragment; once the generator
\* has ended there is exactly one marker if the source is longer than
\* max_output_size and none if it is not.
C8_StreamTruncation ==
    /\ BytesOf(fragments) <= max_output_size
    /\ Len(TextOf(fragments)) <= max_output_size
    /\ Markers \subseteq {Len(fragments)}
    /\ stream_pc = "done" =>
          IF Len(source) > max_output_size
          THEN Markers = {Len(fragments)} /\ fragments # <<>>
          ELSE Markers = {}

\* C8 witness: a source longer than the ceiling was streamed to its end in
\* several reads: text with a replaced byte came first, the marker last.
C8_Witness ==
    /\ stream_pc = "done"
    /\ Len(source) > max_output_size
    /\ Len(fragments) >= 2
    /\ fragments[Len(fragments)].marker
    /\ \E k \in 1..Len(TextOf(fragments)) : TextOf(fragments)[k] = ReplacementChar

(***************************************************************************)
(* Claims on stream_output_with_separation (specification SpecSep)         *)
(***************************************************************************)
\* C9: stream_separated does not end while a channel still has data to
\* deliver: when the merged stream has ended, the fragments yielded for each
\* channel whose content fits the size ceiling carry all of that channel's
\* bytes (they are read first-in first-out, so carrying as many bytes as the
\* content has is carrying the content in read order) and no marker, whatever
\* the delay between the writes on either pipe.  A channel whose pipe has
\* failed is left out.
C9_SeparatedDeliversAll ==
    sep_pc = "done" =>
        \A ch \in Channels :
            (/\ Len(sep_cfg.content[ch]) <= sep_cfg.max_output_size
             /\ sep_pipe[ch].error = "") =>
                /\ BytesOf(sep_out[ch]) = Len(sep_cfg.content[ch])
                /\ \A k \in 1..Len(sep_out[ch]) : ~sep_out[ch][k].marker

(***************************************************************************)
(* Claims on execute_with_streaming (specification SpecStreaming)          *)
(***************************************************************************)
\* C10: in execute_with_streaming without timeout, when the completion task
\* has updated the result after the exit of the process, result.exit_code is
\* the return code of the process and result.stdout and result.stderr are the
\* full stdout and stderr of the process, whatever number of fragments the
\* caller has taken from the stream by then.
C10_StreamingResultComplete ==
    (streaming_pc = "done" /\ preliminary_result.state = "completed"
        /\ ~HasTimer(streaming_req.timeout)) =>
        /\ preliminary_result.exit_code = streaming_process.returncode
        /\ preliminary_result.stdout = Decode(streaming_req.stdout)
        /\ preliminary_result.stderr = Decode(streaming_req.stderr)

\* C12: at every point of the iteration of the stream that
\* execute_with_streaming returned, result.captured_chunks is the sequence of
\* the fragments handed to the consumer so far, in the same order.
C12_CapturedChunksAreYielded ==
    streaming_pc # "idle" => CapturedChunks = chunk_capture.yielded

(***************************************************************************)
(* Claims on execute_with_separated_streaming (specification SpecSeparated)*)
(***************************************************************************)
\* C11: in execute_with_separated_streaming, once the process has ended by
\* itself, the completion task has updated the result and the caller has
\* consumed the pair stream to its end, result.stdout is the text of all the
\* process wrote to stdout and result.stderr that of all it wrote to stderr,
\* in whatever order the consumer and the completion task took their steps.
\* Stated for outputs within the size ceiling and calls without timeout.
C11_SeparatedResultComplete ==
    (/\ sep_pc = "done"
     /\ separated_task.pc = "done"
     /\ separated_result.state = "completed"
     /\ ~HasTimer(separated_task.timeout)
     /\ \A c \in Channels : Len(sep_cfg.content[c]) <= sep_cfg.max_output_size)
        => /\ separated_result.stdout = Decode(sep_cfg.content["stdout"])
           /\ separated_result.stderr = Decode(sep_cfg.content["stderr"])

\* C13: at every point of the iteration of the pair stream that
\* execute_with_separated_streaming returned, result.captured_chunks holds
\* the fragments yielded so far.  Stated through what it implies whatever the
\* order of emission was: captured_chunks has as many fragments as the pairs
\* yielded so far carry.
C13_SeparatedCapturedChunks ==
    separated_task.pc # "idle" =>
        Len(separated_result.captured_chunks)
            = Len(sep_out["stdout"]) + Len(sep_out["stderr"])

(***************************************************************************)
(* Claims on the timeout of both streaming modes (specification SpecTimeout)*)
(***************************************************************************)
\* the result says that the call timed out after T seconds
TimedOutStreaming ==
    /\ streaming_pc = "done"
    /\ preliminary_result.state = "timeout"
    /\ preliminary_result.exit_code = -1
    /\ EndsWith(preliminary_result.suffix,
                "timed out after " \o ToString(streaming_req.timeout) \o " seconds")
TimedOutSeparated ==
    /\ separated_task.pc = "done"
    /\ separated_result.state = "timeout"
    /\ separated_result.exit_code = -1
    /\ EndsWith(separated_result.suffix,
                "timed out after " \o ToString(separated_task.timeout) \o " seconds")

\* C14: in both streaming modes with a timeout T > 0, when the timer expires
\* while the process is still running, the completion task sends a signal to
\* the process group, and the result eventually has exit_code -1 and a
\* stderr that holds "timed out after T seconds".
C14_StreamingTimeout ==
    /\ [][(streaming_pc = "waiting" /\ streaming_pc' # "waiting"
              /\ streaming_process.os = "alive")
           => streaming_process'.signals # <<>>]_vars
    /\ [][(separated_task.pc = "waiting" /\ separated_task'.pc # "waiting"
              /\ separated_task.os = "alive")
           => separated_task'.signals # <<>>]_vars
    /\ (streaming_pc = "grace") ~> TimedOutStreaming
    /\ (separated_task.pc = "grace") ~> TimedOutSeparated

\* C14 witness: a separated streaming call has timed out on a process that
\* took SIGTERM and SIGKILL before it ended.
C14_Witness ==
    /\ TimedOutSeparated
    /\ separated_task.signals = <<"SIGTERM", "SIGKILL">>
    /\ separated_task.os = "gone"

\* a step of a restart_process call on id: its entry, the resumption of its
\* kill_process, or its start_process
RestartStep(id) ==
    \/ \E c \in BagToSet(calls') :
          c.op = "restart" /\ c.id = id /\ calls' = Suspend(c)
    \/ \E c \in BagToSet(calls) :
          /\ c.op = "restart" /\ c.id = id
          /\ \/ c.pc = "spawn" /\ calls' = Resume(c)
             \/ /\ c.pc = "sleep"
                /\ calls' = Resume(c) (+) SetToBag({[c EXCEPT !.pc = "spawn"]})

NeverKilled(id) ==
    /\ processes[id].status # KILLED
    /\ proc[id].capture # "done"
    /\ \A c \in BagToSet(calls) : c.op # "shutdown" /\ c.id # id

\* C16: right after start_process the record is Running, and once a process
\* that was never killed has ended by itself with exit code rc, its record
\* reads Completed when rc is 0 and Failed otherwise (Running until the first
\* refresh), with or without output capture
C16_StatusFollowsExitCode ==
    /\ (last.op = "start" /\ last.ret = RUNNING) =>
           processes[last.id].status = RUNNING
    /\ \A id \in DOMAIN processes :
          (NeverKilled(id) /\ proc[id].os = "gone" /\ proc[id].returncode # None) =>
              processes[id].status \in
                  {RUNNING, IF proc[id].returncode = 0 THEN COMPLETED ELSE FAILED}

\* C17: while a process started with capture is Running, get_process_output
\* returns what the process has written so far: once the process has written,
\* a call on its Running record returns that output
C17_OutputGrowsWhileRunning ==
    (/\ last.op = "output"
     /\ last.id \in DOMAIN processes
     /\ processes[last.id].status = RUNNING
     /\ proc[last.id].os = "alive"
     /\ proc[last.id].capture = "buffered") =>
        last.ret = "output"

\* C18: get_process_output raises ValueError exactly when the id is not
\* tracked or its process was started without capture; on a tracked record
\* started with capture it returns the buffer whatever the status, also after
\* the process was killed in mid-run
C18_OutputFailsIffNoCapture ==
    last.op = "output" =>
        (last.ret = "ValueError" <=>
            (last.id \notin DOMAIN processes \/ proc[last.id].capture = "none"))

\* get_process_output has returned the buffer of a record that kill_process
\* marked Killed before _capture_output finished
C18_Witness ==
    /\ last.op = "output"
    /\ last.ret # "ValueError"
    /\ last.id \in DOMAIN processes
    /\ processes[last.id].status = KILLED
    /\ proc[last.id].capture \in {"waiting", "buffered"}

\* C19: cleanup_completed_processes removes a record exactly when its status
\* is Completed, Failed or Killed and its age exceeds max_age_hours; a Running
\* record is never removed; the record, its handle and its output buffer go
\* together, and what belongs to the other records is left as it was
C19_CleanupRemovesOldTerminal ==
    [][\A h \in 1..MaxProcs + 1 :
          CleanupCompletedProcesses(h) =>
              \A i \in DOMAIN processes :
                  IF processes[i].status \in TerminalStatuses /\ StartedAt(i) < h
                  THEN /\ i \notin DOMAIN processes'
                       /\ i \notin process_handles'
                       /\ i \notin DOMAIN process_outputs'
                  ELSE /\ i \in DOMAIN processes'
                       /\ processes'[i] = processes[i]
                       /\ i \in process_handles' <=> i \in process_handles
                       /\ i \in DOMAIN process_outputs' <=> i \in DOMAIN process_outputs
                       /\ i \in DOMAIN process_outputs =>
                              process_outputs'[i] = process_outputs[i]]_vars

\* the second process, started with capture, has ended and its record, handle
\* and buffer were cleaned up while the older first record, Running, was kept
C19_Witness ==
    /\ next_id = 3
    /\ DOMAIN processes = {1}
    /\ processes[1].status = RUNNING
    /\ process_handles = {1}
    /\ proc[2].capture = "done"
    /\ 2 \notin DOMAIN process_outputs

\* the ids a suspended shutdown call has signalled and sleeps on, or has still
\* to kill
ShutdownPending(bag) ==
    UNION {{c.id} \cup {c.queue[k] : k \in DOMAIN c.queue} :
              c \in {d \in BagToSet(bag) : d.op = "shutdown"}}

\* C20: when shutdown returns, every record that was Running when it was
\* called has been signalled, and the three maps are empty: no run of
\* shutdown's loop passes over a record of its list without sending it a
\* signal, and the run that ends the loop leaves processes, _process_handles
\* and _process_outputs empty
C20_ShutdownSignalsRunning ==
    /\ [][ShutdownBegin =>
             /\ \A i \in DOMAIN processes :
                   processes[i].status = RUNNING => i \in ShutdownPending(calls')
             /\ calls' = calls =>
                   processes' = <<>> /\ process_handles' = {}
                       /\ process_outputs' = <<>>]_vars
    /\ [][\A c \in BagToSet(calls) :
             ShutdownKillResume(c) =>
                 /\ \A k \in DOMAIN c.queue : c.queue[k] \in ShutdownPending(calls')
                 /\ calls' = Resume(c) =>
                       processes' = <<>> /\ process_handles' = {}
                           /\ process_outputs' = <<>>]_vars

\* the part of C20 about the maps
ShutdownLeavesMapsEmpty ==
    /\ [][(ShutdownBegin /\ calls' = calls) =>
             processes' = <<>> /\ process_handles' = {} /\ process_outputs' = <<>>]_vars
    /\ [][\A c \in BagToSet(calls) :
             (ShutdownKillResume(c) /\ calls' = Resume(c)) =>
                 processes' = <<>> /\ process_handles' = {}
                     /\ process_outputs' = <<>>]_vars

\* C21: on an id that is not in the registry get_process_status and
\* restart_process raise ValueError and kill_process returns False, and the
\* call changes none of the three maps, spawns no process and leaves no call
\* suspended
C21_UnknownIdRejected ==
    [][(/\ last'.op \in {"status", "kill", "restart"}
        /\ ~last'.slept
        /\ last'.id \in Ids
        /\ last'.id \notin DOMAIN processes) =>
           /\ last'.ret = IF last'.op = "kill" THEN "False" ELSE "ValueError"
           /\ UNCHANGED <<processes, process_handles, process_outputs, proc,
                          next_id, calls>>]_vars

\* restart_process has raised ValueError on an id the registry does not hold
\* while it holds another record
C21_Witness ==
    /\ last.op = "restart"
    /\ last.ret = "ValueError"
    /\ last.id \notin DOMAIN processes
    /\ processes # <<>>

\* C22: a spawn failure inside start_process does not reach the caller as an
\* exception: no start_process call ends by raising
C22_StartNeverRaises ==
    last.op = "start" => last.ret # "OSError"

\* the text t occurs in s
Contains(s, t) ==
    \E k \in 1..(Len(s) - Len(t) + 1) : SubSeq(s, k, k + Len(t) - 1) = t

\* C23: when the working directory of the request is set and does not exist,
\* execute returns exit_code -1 with a message saying that it does not exist
\* (and not that it is no directory: existence is tested first); when it
\* exists and is not a directory, execute returns exit_code -1 with a message
\* saying that it is not a directory; in both cases no subprocess was spawned
C23_WorkingDirectoryValidated ==
    (exec_pc = "done" /\ request.working_directory # "") =>
        LET wd == request.working_directory
        IN /\ ~Exists(wd) =>
                 /\ result.kind = "result"
                 /\ result.exit_code = -1
                 /\ Contains(result.stderr, "does not exist: " \o wd)
                 /\ ~Contains(result.stderr, "not a directory")
                 /\ process = NoProcess
           /\ (Exists(wd) /\ ~IsDir(wd)) =>
                 /\ result.kind = "result"
                 /\ result.exit_code = -1
                 /\ Contains(result.stderr, "is not a directory: " \o wd)
                 /\ process = NoProcess

\* execute has returned from a request whose working directory is a file
C23_Witness ==
    /\ exec_pc = "done"
    /\ request.working_directory = "/etc/hosts"
    /\ result.exit_code = -1
    /\ process = NoProcess

(***************************************************************************)
(* Claims on the environment and the log of execute                        *)
(***************************************************************************)
\* C24: for concurrent execute calls that set different values for the same
\* name, the environment each subprocess starts with is the inherited
\* environment with exactly the overrides of its own request written over
\* it, whatever the other calls set, and os.environ of the server is never
\* changed.  Stated for requests whose overrides are strings, as
\* CommandRequest declares them.
C24_EnvironmentIsolated ==
    /\ environ = ParentEnviron
    /\ \A c \in EnvCalls :
          (/\ env_call[c].pc \in {"running", "done"}
           /\ InvalidEntries(env_call[c].overrides) = {}) =>
              env_call[c].child =
                  [n \in DOMAIN ParentEnviron \cup DOMAIN env_call[c].overrides |->
                      IF n \in DOMAIN env_call[c].overrides
                      THEN env_call[c].overrides[n] ELSE ParentEnviron[n]]

\* two subprocesses run at once, each with its own value of TOKEN
C24_Witness ==
    /\ env_call[1].pc = "running"
    /\ env_call[2].pc = "running"
    /\ "TOKEN" \in DOMAIN env_call[1].child
    /\ "TOKEN" \in DOMAIN env_call[2].child
    /\ env_call[1].child["TOKEN"] = StrValue("a")
    /\ env_call[2].child["TOKEN"] = StrValue("b")

\* C25: no log record of an execution holds the value of an entry of
\* request.environment_variables; names and counts only
C25_NoValueLogged ==
    \A rec \in env_log : rec.values = {}

\* C26: the buffer size of an OutputStreamer is positive in every reachable
\* state: the constructor and adjust_buffer_size raise for every size <= 0 and
\* for no positive size, an adjust that raises leaves buffer_size as it was,
\* an adjust that returns stores its argument, and reset_buffer_size
\* restores the size the constructor was given.
C26_BufferSizePositive ==
    /\ [](streamer.built =>
             streamer.buffer_size > 0 /\ streamer.original_buffer_size > 0)
    /\ [][/\ (streamer'.op \in {"new", "adjust"} /\ streamer'.arg <= 0)
                => streamer'.raised
          /\ (streamer'.op = "adjust" /\ streamer'.arg > 0)
                => ~streamer'.raised /\ streamer'.buffer_size = streamer'.arg
          /\ streamer'.raised
                => /\ streamer'.buffer_size = streamer.buffer_size
                   /\ streamer'.original_buffer_size
                         = streamer.original_buffer_size
                   /\ streamer'.built = streamer.built
          /\ (streamer'.op = "new" /\ ~streamer'.raised)
                => /\ streamer'.buffer_size = streamer'.arg
                   /\ streamer'.original_buffer_size = streamer'.arg
          /\ streamer'.op = "adjust"
                => streamer'.original_buffer_size
                      = streamer.original_buffer_size
          /\ streamer'.op = "reset"
                => /\ streamer'.buffer_size = streamer.original_buffer_size
                   /\ streamer'.original_buffer_size
                         = streamer.original_buffer_size]_vars

\* an adjusted streamer has just refused the size 0 and kept its size
C26_Witness ==
    /\ streamer.built /\ streamer.op = "adjust" /\ streamer.raised
    /\ streamer.arg = 0
    /\ streamer.buffer_size # streamer.original_buffer_size

(***************************************************************************)
(* Claims on failing pipe reads (specification SpecReadFailure)            *)
(***************************************************************************)
\* the positions of the error markers in a run of fragments
ErrorIndexes(fs) == {k \in 1..Len(fs) : fs[k].error # ""}
\* what a channel of the merged stream has produced: the fragments yielded
\* and the stdout chunk the current turn of the merge loop still holds
Produced(ch) == sep_out[ch] \o (IF ch = "stdout" THEN sep_held ELSE <<>>)
\* the merge loop polls ch, whose generator is live and whose read raises
FailedRead(ch) ==
    /\ MergeStep
    /\ sep_pc = ch
    /\ ~sep_gen[ch].closed
    /\ sep_pipe[ch].error # ""

\* C27: when a pipe read fails in stream_output, or on one channel of
\* stream_output_with_separation, exactly one error marker is yielded for
\* that channel, as its last fragment, and the channel ends: nothing more is
\* yielded for it, the other channel goes on, and no exception reaches the
\* consumer.
C27_ReadFailureBecomesMarker ==
    /\ [](stream_pc # "raised")
    /\ [](ErrorIndexes(fragments) =
             IF stream_pc = "failed" THEN {Len(fragments)} ELSE {})
    /\ [](stream_pc = "failed" => fragments # <<>>)
    /\ [][(\E e \in ReadErrors : StreamReadFails(e)) =>
             /\ stream_pc' = "failed"
             /\ Len(fragments') = Len(fragments) + 1
             /\ SubSeq(fragments', 1, Len(fragments)) = fragments]_vars
    /\ [][stream_pc = "failed" =>
             stream_pc' = "failed" /\ fragments' = fragments]_vars
    /\ [](\A ch \in Channels :
             /\ ErrorIndexes(Produced(ch)) \subseteq {Len(Produced(ch))}
             /\ ErrorIndexes(Produced(ch)) # {} =>
                   /\ sep_gen[ch].closed
                   /\ Produced(ch)[Len(Produced(ch))].error = "STREAM ERROR")
    /\ [](sep_pc = "done" => sep_held = <<>>)
    /\ [][\A ch \in Channels :
             /\ FailedRead(ch) =>
                   /\ Len(Produced(ch)') = Len(Produced(ch)) + 1
                   /\ ErrorIndexes(Produced(ch)') = {Len(Produced(ch)')}
                   /\ sep_gen'[ch].closed
                   /\ sep_pc' # "done" \/ sep_gen[IF ch = "stdout" THEN "stderr"
                                                  ELSE "stdout"].exhausted
             /\ sep_gen[ch].closed =>
                   sep_gen'[ch].closed /\ Produced(ch)' = Produced(ch)]_vars

\* a stream that had yielded text ended with the marker of an I/O error while
\* part of the source was still unread
C27_Witness ==
    /\ stream_pc = "failed"
    /\ Len(fragments) >= 2
    /\ fragments[Len(fragments)].error = "I/O ERROR"
    /\ fragments[1].text # <<>>
    /\ position < Len(source)

\* a merged stream has ended: stdout gave text and then its error marker,
\* stderr gave all it had
C27_SeparatedReached ==
    /\ sep_pc = "done"
    /\ Len(sep_out["stdout"]) >= 2
    /\ ErrorIndexes(sep_out["stdout"]) = {Len(sep_out["stdout"])}
    /\ sep_cfg.content["stderr"] # <<>>
    /\ BytesOf(sep_out["stderr"]) = Len(sep_cfg.content["stderr"])

(***************************************************************************)
(* Claims on the content of a stream (specification SpecStream)            *)
(***************************************************************************)
\* C28: when stream_output has come to the end of a source no larger than
\* max_output_size, the yielded fragments are the reads in read order, none
\* dropped, duplicated or reordered: they carry every byte of the source, no
\* marker, and their concatenation is the text of the source.
C28_FragmentsAreSource ==
    (stream_pc = "done" /\ Len(source) <= max_output_size) =>
        /\ BytesOf(fragments) = Len(source)
        /\ \A k \in 1..Len(fragments) : ~fragments[k].marker
        /\ TextOf(fragments) = Decode(source)

\* the part of C28 that holds: every byte of the source is read once, in
\* order, and each read gives one fragment
C28_EveryByteRead ==
    /\ (stream_pc = "done" /\ Len(source) <= max_output_size) =>
          /\ BytesOf(fragments) = Len(source)
          /\ \A k \in 1..Len(fragments) : ~fragments[k].marker
    /\ stream_pc = "reading" =>
          /\ BytesOf(fragments) = position
          /\ Len(TextOf(fragments)) <= position

\* no kill_process has signalled id: its record is not Killed and no
\* kill_process, restart_process or shutdown call is at work on it
NotKilled(id) ==
    /\ processes[id].status # KILLED
    /\ \A c \in BagToSet(calls) : c.op # "shutdown" /\ c.id # id

\* C29: list_processes returns one record for each tracked id, and for every
\* tracked record whose process has ended by itself before the call, and was
\* not killed, the status in the returned list is Completed or Failed, never
\* Running.
C29_ListNeverRunningAfterExit ==
    [][ListProcesses =>
          /\ DOMAIN processes' = DOMAIN processes
          /\ \A id \in DOMAIN processes :
                (proc[id].os \in {"exited", "gone"} /\ NotKilled(id)) =>
                    processes'[id].status \in {COMPLETED, FAILED}]_vars

\* the part of C29 that holds: one record per tracked id, and none Running
\* for a process that has been reaped
C29_ListAfterReaping ==
    [][ListProcesses =>
          /\ DOMAIN processes' = DOMAIN processes
          /\ \A id \in DOMAIN processes :
                (proc[id].os = "gone" /\ id \in process_handles) =>
                    processes'[id].status # RUNNING]_vars

\* C30: when execute has returned, result.exit_code is -1 exactly when the
\* framework detected the failure (validation, spawn error or timeout): a
\* command that ran to its own end never gives exit_code -1.
C30_SentinelIffFrameworkFailure ==
    (exec_pc = "done" /\ result.kind = "result") =>
        (result.exit_code = -1 <=> failure # "none")

\* the part of C30 that holds: every failure the framework detects gives -1
C30_FrameworkFailureGivesSentinel ==
    (exec_pc = "done" /\ result.kind = "result" /\ failure # "none") =>
        result.exit_code = -1

(***************************************************************************)
(* Claims on the audit trail (specification SpecAudit)                     *)
(***************************************************************************)
\* C31: every execution, in each of the three modes and for every outcome,
\* emits exactly one audit record, and that record carries the working
\* directory, the environment-variable count and the timeout of the
\* execution's own request.
C31_OneAuditRecordPerExecution ==
    audit_call.pc = "done" =>
        /\ Len(audit_log) = 1
        /\ audit_log[1].working_directory = audit_call.request.working_directory
        /\ audit_log[1].environment_var_count = audit_call.request.env_var_count
        /\ audit_log[1].timeout = audit_call.request.timeout

\* the part of C31 that holds: the blocking execute emits one record, of its
\* own request, for every outcome, and no execution emits more than one
C31_BlockingAudit ==
    /\ Len(audit_log) <= 1
    /\ (audit_call.pc = "done" /\ audit_call.mode = "blocking") =>
          audit_log = <<LogCommandAudit(audit_call.request,
                                        ExitCodeOf(audit_call.outcome))>>

(***************************************************************************)
(* Claims on the capture of a large output (specification SpecCapture)     *)
(***************************************************************************)
\* C32: a capturing execute with no timeout, of a command that writes more
\* than max_output_size bytes and then exits, eventually returns, with the
\* exit code of the process.
C32_CaptureReturnsPastCeiling ==
    /\ (/\ capture_pc = "waiting"
        /\ capture_proc.to_write + capture_pipe + capture_reader.total_size
              > capture_reader.max_output_size)
          ~> (capture_pc = "done")
    /\ [](capture_pc = "done" => capture_result.exit_code = capture_proc.status)

\* the part of C32 that holds: execute returns, with the exit code of the
\* process, whenever what the command writes past the point where the read
\* stops fits the pipe and the reader's buffer
C32_CaptureReturnsWhenPipeHolds ==
    /\ (capture_pc = "waiting" /\ capture_proc.to_write + capture_pipe
            <= PipeCapacity)
          ~> (capture_pc = "done")
    /\ [](capture_pc = "done" => capture_result.exit_code = capture_proc.status)

\* C33: a termination, by the executor on timeout or by the registry's kill,
\* signals the process group with SIGTERM first, and sends SIGKILL only after
\* the grace window and only to a process that has not exited by then
C33_TermFirstKillOnlyIfRunning ==
    \A i \in 1..Len(term_signals) :
        /\ term_signals[1].sig = "SIGTERM"
        /\ term_signals[1].target = "group"
        /\ term_signals[i].sig = "SIGKILL" =>
              /\ i > 1
              /\ term_signals[i].graced
              /\ term_signals[i].os = "alive"

\* C33, what the code keeps: SIGTERM to the group comes first and SIGKILL
\* comes only after the grace window; it may reach a process that has exited
\* and whose exit the event loop has not recorded yet
C33_TermFirstKillAfterGrace ==
    \A i \in 1..Len(term_signals) :
        /\ term_signals[1].sig = "SIGTERM"
        /\ term_signals[1].target = "group"
        /\ term_signals[i].sig = "SIGKILL" =>
              /\ i > 1
              /\ term_signals[i].graced
              /\ term_signals[i].os \in {"alive", "exited"}

\* C34: while a termination is in progress, its fallback to single-process
\* termination included, the scheduler thread is not blocked: another
\* in-flight execution, stream drain or registry operation can make a step
C34_TerminationNeverBlocksScheduler ==
    term_pc \in {"grace", "blocked"} => ENABLED OtherTaskStep

\* C34, what the code keeps: during the grace window of the group
\* termination (asyncio.sleep) the other tasks can make a step
C34_GroupTerminationYields ==
    term_pc = "grace" => ENABLED OtherTaskStep

\* the background capture task of id is ready to run lines 95-104 although
\* cleanup or shutdown has removed the record of id
CaptureAfterRemoval(id) ==
    /\ id \notin DOMAIN processes
    /\ proc[id].capture \in {"waiting", "buffered"}
    /\ proc[id].returncode # None

\* C35: between registry operations the ids that have a process handle are
\* the ids that have a record, every id that has an output buffer has a
\* record, and the background capture task creates no record and no buffer:
\* it leaves the key sets of the three maps as they are
C35_MapsAgree ==
    /\ [](/\ process_handles = DOMAIN processes
          /\ DOMAIN process_outputs \subseteq DOMAIN processes)
    /\ [][\A i \in Ids :
             CaptureOutput(i) =>
                 /\ DOMAIN processes' = DOMAIN processes
                 /\ DOMAIN process_outputs' = DOMAIN process_outputs
                 /\ process_handles' = process_handles]_vars

\* the capture task of a removed record is about to run while another record
\* with a buffer is tracked
C35_Witness ==
    \E i, j \in Ids :
        /\ CaptureAfterRemoval(i)
        /\ j \in DOMAIN process_outputs
        /\ j \in process_handles

\* C36: a process started by a concurrent start_process call while shutdown
\* is suspended inside a kill is, when shutdown returns, terminated or still
\* tracked: the step on which shutdown returns leaves no Running record that
\* is outside shutdown's list both alive and without a record
C36_StartedDuringShutdownKept ==
    [][\A c \in BagToSet(calls) :
          (ShutdownKillResume(c) /\ calls' = Resume(c)) =>
              \A i \in DOMAIN processes :
                  (/\ processes[i].status = RUNNING
                   /\ proc[i].os = "alive"
                   /\ i \notin ShutdownPending(calls)) =>
                      (proc'[i].os # "alive" \/ i \in DOMAIN processes')]_vars

\* C36, what the code keeps: the processes of shutdown's own list are no
\* longer alive when shutdown returns
C36_ListedProcessesTerminated ==
    [][\A c \in BagToSet(calls) :
          (ShutdownKillResume(c) /\ calls' = Resume(c)) =>
              proc'[c.id].os # "alive"]_vars

\* the completion task of the call has not updated the result yet
NotFinalised(pc) == pc \in {"waiting", "grace", "killed"}

\* what a caller reads in a result: exit_code 0, no stdout, no stderr,
\* execution_time 0.0 and completed_at equal to started_at
ReadsAsInstantSuccess(r) ==
    /\ r.exit_code = 0
    /\ r.stdout = <<>>
    /\ r.stderr = <<>>
    /\ r.suffix = ""
    /\ r.execution_time = "0.0"
    /\ r.completed_at = "started_at"

\* C37: from the return of execute_with_streaming or
\* execute_with_separated_streaming until its completion task finalises the
\* result, the result reads exit_code 0, empty stdout and stderr,
\* execution_time 0 and completed_at equal to started_at, as that of a
\* command that succeeded at once without output
C37_PreliminaryReadsAsInstantSuccess ==
    /\ NotFinalised(streaming_pc) => ReadsAsInstantSuccess(preliminary_result)
    /\ NotFinalised(separated_task.pc) => ReadsAsInstantSuccess(separated_result)

\* a streaming call whose process has failed after output was delivered, or
\* whose timer has expired, and whose result is not finalised yet
C37_Witness ==
    /\ NotFinalised(streaming_pc)
    /\ chunk_capture.yielded # <<>>
    /\ \/ streaming_process.returncode = 1
       \/ streaming_pc = "grace"

\* the same for a separated call
C37_SeparatedReached ==
    /\ NotFinalised(separated_task.pc)
    /\ sep_out["stdout"] # <<>>
    /\ \/ separated_task.returncode = 1
       \/ separated_task.pc = "grace"

\* a call with a timeout of 0 whose process was spawned: no signal has been
\* sent to the process, the timeout handler is not running, and a result
\* that is no longer preliminary is that of a process that has ended
ZeroTimeoutHasNoTimer(timeout, os, pc, sent, state) ==
    (timeout = 0 /\ os # "none") =>
        /\ sent = <<>>
        /\ pc \notin {"grace", "killed"}
        /\ state # "timeout"
        /\ state # "preliminary" => state = "completed" /\ os = "gone"

\* C38: in both streaming modes a timeout of 0 sets no timer: the process is
\* never signalled, the timeout path is never taken, and the result is
\* finalised only once the process has ended by itself
C38_ZeroTimeoutNeverFires ==
    /\ ZeroTimeoutHasNoTimer(streaming_req.timeout, streaming_process.os,
                             streaming_pc, streaming_process.signals,
                             preliminary_result.state)
    /\ ZeroTimeoutHasNoTimer(separated_task.timeout, separated_task.os,
                             separated_task.pc, separated_task.signals,
                             separated_result.state)

\* a streaming call with timeout 0 was finalised after its process failed by
\* itself
C38_Witness ==
    /\ streaming_req.timeout = 0
    /\ streaming_process.returncode = 1
    /\ preliminary_result.state = "completed"
    /\ preliminary_result.exit_code = 1

\* the same for a separated call
C38_SeparatedReached ==
    /\ separated_task.timeout = 0
    /\ separated_task.returncode = 1
    /\ separated_result.state = "completed"

C40_RestartedHasNoCapture ==
    /\ [][\A c \in BagToSet(calls) :
             RestartSpawn(c) =>
                 /\ last'.id = next_id
                 /\ next_id \in DOMAIN processes'
                 /\ next_id \notin DOMAIN process_outputs'
                 /\ proc'[next_id].capture = "none"]_vars
    /\ [][\A i \in DOMAIN processes :
             i \notin DOMAIN process_outputs =>
                 i \notin DOMAIN process_outputs']_vars
    /\ [][\A i \in Ids :
             (GetProcessOutput(i) /\ i \notin DOMAIN process_outputs) =>
                 last'.ret = "ValueError"]_vars

\* get_process_output has raised ValueError on the record that a restart of
\* a captured process returned, while the original still has its buffer
C40_Witness ==
    /\ last.op = "output"
    /\ last.ret = "ValueError"
    /\ last.id \in DOMAIN processes
    /\ processes[last.id].command = "job"
    /\ \E j \in DOMAIN process_outputs :
          j # last.id /\ processes[j].command = "job"

====
